---- MODULE Spec2Model ----
(***************************************************************************)
(* Storage cleaner: the scan / classify / deduplicate / clean engine of    *)
(* the Express server (src/unnamed/part_000) and of the React Native       *)
(* client (src/frontend/App.js), with the bounded history ledger.          *)
(*                                                                         *)
(* Strings of the program (paths, names, URIs) are sequences of            *)
(* one-character strings, so that includes / startsWith / extname work on  *)
(* characters as they do in the code.                                      *)
(***************************************************************************)
EXTENDS Integers, Sequences, FiniteSets, TLC

(***************************************************************************)
(* String helpers (JavaScript String.prototype and Array.prototype)        *)
(***************************************************************************)
toLowerCase(s) ==
  LET upper == << "A","B","C","D","E","F","G","H","I","J","K","L","M",
                  "N","O","P","Q","R","S","T","U","V","W","X","Y","Z" >>
      lower == << "a","b","c","d","e","f","g","h","i","j","k","l","m",
                  "n","o","p","q","r","s","t","u","v","w","x","y","z" >>
      lowerChar(c) == IF \E i \in 1..26 : upper[i] = c
                        THEN lower[CHOOSE i \in 1..26 : upper[i] = c] ELSE c
  IN  [i \in 1..Len(s) |-> lowerChar(s[i])]

includes(s, sub) ==
  \E i \in 1..(Len(s) - Len(sub) + 1) : SubSeq(s, i, i + Len(sub) - 1) = sub

startsWith(s, pre) ==
  Len(pre) <= Len(s) /\ SubSeq(s, 1, Len(pre)) = pre

\* 0-based index of the last occurrence of the one-character string c, or -1
lastIndexOf(s, c) ==
  IF \E i \in 1..Len(s) : s[i] = c
    THEN (CHOOSE i \in 1..Len(s) : s[i] = c /\ \A j \in (i+1)..Len(s) : s[j] # c) - 1
    ELSE -1

\* s.slice(b) for an integer b (a negative b counts from the end)
sliceFrom(s, b) ==
  LET from == IF b < 0 THEN (IF Len(s) + b < 0 THEN 0 ELSE Len(s) + b) ELSE b
  IN  SubSeq(s, from + 1, Len(s))

\* arr.slice(0, n)
sliceTo(arr, n) == SubSeq(arr, 1, IF Len(arr) < n THEN Len(arr) ELSE n)

\* the same sequence, as an explicit tuple
Materialize(s) == s \o << >>

\* files.reduce((s, f) => s + f.size, 0); the sum is taken half by half, so
\* that a list of a thousand files is summed without a thousand nested calls
RECURSIVE SumSizes(_)
SumSizes(fs) ==
  IF fs = << >> THEN 0
  ELSE IF Len(fs) = 1 THEN fs[1].size
  ELSE LET h == Len(fs) \div 2
       IN  SumSizes(SubSeq(fs, 1, h)) + SumSizes(SubSeq(fs, h + 1, Len(fs)))

RECURSIVE Flatten(_)
Flatten(ss) == IF ss = << >> THEN << >> ELSE ss[1] \o Flatten(Tail(ss))

(***************************************************************************)
(* Program constants of the server                                         *)
(***************************************************************************)
MB == 1048576

sep == << "/" >>

MEDIA_EXTS ==
  { << ".", "m", "p", "4" >>, << ".", "m", "o", "v" >>, << ".", "m", "k", "v" >>,
    << ".", "a", "v", "i" >>, << ".", "z", "i", "p" >>, << ".", "r", "a", "r" >>,
    << ".", "7", "z" >>, << ".", "t", "a", "r" >>, << ".", "g", "z" >>,
    << ".", "i", "s", "o" >> }

LOG_EXTS == { << ".", "l", "o", "g" >> }

IGNORED_DIRS_NoGit ==
  { << "n","o","d","e","_","m","o","d","u","l","e","s" >>, << ".","e","x","p","o" >> }

IGNORED_DIRS ==
  { << "n","o","d","e","_","m","o","d","u","l","e","s" >>, << ".","g","i","t" >>,
    << ".","e","x","p","o" >> }

CategoryIds == << "cache", "downloads", "duplicates", "media", "logs" >>

CategoryIdSet == { CategoryIds[i] : i \in 1..Len(CategoryIds) }

\* the value null of a file's category
NoCategory == "none"

HISTORY_CAP == 10

\* the same cut in the app: [entry, ...history].slice(0, 10)
CLIENT_HISTORY_CAP == 10

\* Math.round(x / MB) for a non-negative integer x: halves round up
RoundDivMB(bytes) == (2 * bytes + MB) \div (2 * MB)

toMB(bytes) ==
  LET r == RoundDivMB(bytes) IN IF r < 0 THEN 0 ELSE r

(***************************************************************************)
(* path module (POSIX)                                                     *)
(***************************************************************************)
join(current, name) == current \o sep \o name

\* path.extname: from the last "." of the basename, "" when there is none or
\* when the only "." is the first character of the basename
extname(p) ==
  LET b == sliceFrom(p, lastIndexOf(p, "/") + 1)
      i == lastIndexOf(b, ".")
  IN  IF i <= 0 THEN << >> ELSE sliceFrom(b, i)

categorizeFileDownloadsFirst(filePath) ==
  LET lower == toLowerCase(filePath)
      ext   == extname(lower)
  IN  IF includes(lower, sep \o << "d","o","w","n","l","o","a","d","s" >> \o sep)
        THEN "downloads"
      ELSE IF \/ includes(lower, sep \o << "c","a","c","h","e" >> \o sep)
              \/ includes(lower, sep \o << "t","m","p" >> \o sep)
        THEN "cache"
      ELSE IF ext \in MEDIA_EXTS THEN "media"
      ELSE IF ext \in LOG_EXTS THEN "logs"
      ELSE NoCategory

categorizeFile(filePath) ==
  LET lower == toLowerCase(filePath)
      ext   == extname(lower)
  IN  IF \/ includes(lower, sep \o << "c","a","c","h","e" >> \o sep)
         \/ includes(lower, sep \o << "t","m","p" >> \o sep)
        THEN "cache"
      ELSE IF includes(lower, sep \o << "d","o","w","n","l","o","a","d","s" >> \o sep)
        THEN "downloads"
      ELSE IF ext \in MEDIA_EXTS THEN "media"
      ELSE IF ext \in LOG_EXTS THEN "logs"
      ELSE NoCategory

\* path.resolve of an absolute path: "." and empty segments dropped, ".." pops
RECURSIVE splitSep(_, _, _)
splitSep(s, cur, acc) ==
  IF s = << >> THEN Append(acc, cur)
  ELSE IF Head(s) = "/" THEN splitSep(Tail(s), << >>, Append(acc, cur))
  ELSE splitSep(Tail(s), Append(cur, Head(s)), acc)

RECURSIVE normalizeSegs(_, _)
normalizeSegs(segs, acc) ==
  IF segs = << >> THEN acc
  ELSE LET g == Head(segs) IN
       IF g = << >> \/ g = << "." >> THEN normalizeSegs(Tail(segs), acc)
       ELSE IF g = << ".", "." >>
         THEN normalizeSegs(Tail(segs),
                IF acc = << >> THEN acc ELSE SubSeq(acc, 1, Len(acc) - 1))
       ELSE normalizeSegs(Tail(segs), Append(acc, g))

RECURSIVE joinSegs(_)
joinSegs(segs) ==
  IF segs = << >> THEN << >> ELSE sep \o Head(segs) \o joinSegs(Tail(segs))

resolve(p) ==
  LET segs == normalizeSegs(splitSep(p, << >>, << >>), << >>)
  IN  IF segs = << >> THEN sep ELSE joinSegs(segs)

(***************************************************************************)
(* The server's filesystem universe.  STORAGE_ROOT is /r ; /r2 is a        *)
(* sibling directory outside the root whose name has the root's name as a  *)
(* prefix.  AllEntries lists every directory entry that can exist, each    *)
(* directory's entries in the order readdir returns them.                  *)
(***************************************************************************)
STORAGE_ROOT == << "/", "r" >>

SiblingRoot == << "/", "r", "2" >>

AllEntries ==
  LET cache     == << "c","a","c","h","e" >>
      d         == << "d" >>
      downloads == << "d","o","w","n","l","o","a","d","s" >>
      logs      == << "l","o","g","s" >>
      ignored   == << "n","o","d","e","_","m","o","d","u","l","e","s" >>
      alog      == << "a",".","l","o","g" >>
      bmp4      == << "b",".","m","p","4" >>
      cmp4      == << "c",".","m","p","4" >>
      ntxt      == << "n",".","t","x","t" >>
      git       == << ".","g","i","t" >>
      expo      == << ".","e","x","p","o" >>
  IN  << [parent |-> STORAGE_ROOT, name |-> bmp4, kind |-> "file"],
         [parent |-> STORAGE_ROOT, name |-> cmp4, kind |-> "file"],
         [parent |-> STORAGE_ROOT, name |-> ntxt, kind |-> "file"],
         [parent |-> STORAGE_ROOT, name |-> cache, kind |-> "dir"],
         [parent |-> STORAGE_ROOT, name |-> d, kind |-> "dir"],
         [parent |-> STORAGE_ROOT, name |-> downloads, kind |-> "dir"],
         [parent |-> STORAGE_ROOT, name |-> logs, kind |-> "dir"],
         [parent |-> STORAGE_ROOT, name |-> ignored, kind |-> "dir"],
         [parent |-> join(STORAGE_ROOT, cache), name |-> alog, kind |-> "file"],
         [parent |-> join(STORAGE_ROOT, d), name |-> cmp4, kind |-> "file"],
         [parent |-> join(STORAGE_ROOT, d), name |-> alog, kind |-> "file"],
         [parent |-> join(STORAGE_ROOT, downloads), name |-> bmp4, kind |-> "file"],
         [parent |-> join(STORAGE_ROOT, logs), name |-> alog, kind |-> "file"],
         [parent |-> join(STORAGE_ROOT, ignored), name |-> alog, kind |-> "file"],
         [parent |-> SiblingRoot, name |-> alog, kind |-> "file"],
         \* more ignored directories, one inside d and one inside an ignored
         \* directory, and an entry that is neither a directory nor a regular file
         [parent |-> STORAGE_ROOT, name |-> git, kind |-> "dir"],
         [parent |-> join(STORAGE_ROOT, git), name |-> alog, kind |-> "file"],
         [parent |-> join(STORAGE_ROOT, d), name |-> expo, kind |-> "dir"],
         [parent |-> join(join(STORAGE_ROOT, d), expo), name |-> bmp4, kind |-> "file"],
         [parent |-> join(STORAGE_ROOT, ignored), name |-> d, kind |-> "dir"],
         [parent |-> join(join(STORAGE_ROOT, ignored), d), name |-> cmp4, kind |-> "file"],
         [parent |-> STORAGE_ROOT, name |-> << "s" >>, kind |-> "link"] >>

EntryIdx == 1..Len(AllEntries)

FileIdx == { i \in EntryIdx : AllEntries[i].kind = "file" }

\* path.join(current, entry.name) of every entry
PathStr == [i \in EntryIdx |-> join(AllEntries[i].parent, AllEntries[i].name)]

\* paths a request can be made to hold that no walk produces: the sibling's
\* file reached through the root with "..", and a file of the root with "."
CraftedPaths ==
  << STORAGE_ROOT \o sep \o << ".", "." >> \o sep \o << "r", "2" >> \o sep
       \o << "a",".","l","o","g" >>,
     STORAGE_ROOT \o sep \o << "." >> \o sep \o << "b",".","m","p","4" >> >>

\* A file record holds its path as a path id: the entry's index, or past the
\* entries a crafted path; PathById gives the string
PathIds == 1..(Len(AllEntries) + Len(CraftedPaths))

PathById ==
  [id \in PathIds |->
     IF id <= Len(AllEntries) THEN PathStr[id] ELSE CraftedPaths[id - Len(AllEntries)]]

\* a file that does not exist has size Absent
Absent == 0 - 1

(***************************************************************************)
(* scanRoot: the walk (an explicit stack, popped from the end), the        *)
(* duplicate grouping by `${name}:${size}`, the per-category lists and     *)
(* the summary.  d gives each file's size (Absent: no such file), ur the   *)
(* directories whose readdir fails, us the files whose stat fails.         *)
(***************************************************************************)
DirPaths ==
  { STORAGE_ROOT } \cup { PathStr[i] : i \in { j \in EntryIdx : AllEntries[j].kind = "dir" } }

\* every entry a directory can hold, in readdir order
Listing ==
  [p \in DirPaths |-> SelectSeq([i \in EntryIdx |-> i], LAMBDA i : AllEntries[i].parent = p)]

\* the files that lie below each directory entry, at any depth
Below ==
  [i \in { j \in EntryIdx : AllEntries[j].kind = "dir" } |->
     { f \in FileIdx : startsWith(PathStr[f], PathStr[i] \o sep) }]

\* a file is listed when it exists; a directory is on disk when a file lies
\* below it (an empty directory adds nothing to a walk)
readdir(d, current) ==
  SelectSeq(Listing[current],
            LAMBDA i : /\ AllEntries[i].kind = "file" => d[i] # Absent
                       /\ AllEntries[i].kind = "dir" => \E f \in Below[i] : d[f] # Absent)

\* categorizeFile(fullPath) of every file entry
CategoryOfPath == [i \in FileIdx |-> categorizeFile(PathStr[i])]

FileRecord(d, i) == [path |-> i, size |-> d[i], category |-> CategoryOfPath[i]]

NameOf(f) == AllEntries[f.path].name

\* the walk: a listing pushes every directory entry not ignored and emits every
\* file entry whose stat succeeds
RECURSIVE WalkStack(_, _, _, _, _)
WalkStack(d, ur, us, stack, files) ==
  IF stack = << >> THEN files
  ELSE LET current == stack[Len(stack)]
           rest    == SubSeq(stack, 1, Len(stack) - 1)
       IN  IF current \in ur THEN WalkStack(d, ur, us, rest, files)
           ELSE LET Pushed(dirs, emitted) ==
                      WalkStack(d, ur, us,
                        rest \o [k \in 1..Len(dirs) |-> PathStr[dirs[k]]],
                        files \o [k \in 1..Len(emitted) |-> FileRecord(d, emitted[k])])
                    Read(entries) ==
                      Pushed(SelectSeq(entries,
                               LAMBDA i : /\ AllEntries[i].kind = "dir"
                                          /\ AllEntries[i].name \notin IGNORED_DIRS),
                             SelectSeq(entries,
                               LAMBDA i : AllEntries[i].kind = "file" /\ i \notin us))
                IN  Read(readdir(d, current))

WalkFilesStatUnguarded(d, ur, us) == WalkStack(d, ur, {}, << STORAGE_ROOT >>, << >>)

WalkFiles(d, ur, us) == WalkStack(d, ur, us, << STORAGE_ROOT >>, << >>)

\* String(n) for a non-negative integer
RECURSIVE Digits(_)
Digits(n) ==
  LET ds == << "0","1","2","3","4","5","6","7","8","9" >>
  IN  IF n < 10 THEN << ds[n + 1] >> ELSE Digits(n \div 10) \o << ds[(n % 10) + 1] >>

DupKeySizeOnly(name, size) == Digits(size)

\* `${file.name}:${file.size}`
DupKey(name, size) == name \o << ":" >> \o Digits(size)

\* group.slice(1)
SliceOneKeepLast(group) == SubSeq(group, 1, Len(group) - 1)

SliceOne(group) == Tail(group)

DeduplicateWholeGroup(files) ==
  [i \in 1..Len(files) |->
     IF \E j \in 1..Len(files) :
          j # i /\ NameOf(files[j]) = NameOf(files[i]) /\ files[j].size = files[i].size
       THEN [files[i] EXCEPT !.category = "duplicates"]
       ELSE files[i]]

\* lines 105-126: group the files by key in walk order; every member of a
\* group of two or more but its first gets category duplicates
Deduplicate(files) ==
  LET n == Len(files)
      Grouped(keys) ==
        LET \* duplicateMap.get(key): the positions of the files with that key, in order
            group(key) == SelectSeq([j \in 1..n |-> j], LAMBDA j : keys[j] = key)
            \* the positions that group.slice(1) holds, over all groups of two or more
            reassigned ==
              { i \in 1..n : LET rest == SliceOne(group(keys[i]))
                             IN  \E k \in 1..Len(rest) : rest[k] = i }
        IN  Materialize([i \in 1..n |->
               IF i \in reassigned THEN [files[i] EXCEPT !.category = "duplicates"]
               ELSE files[i]])
  IN  Grouped(Materialize([i \in 1..n |-> DupKey(NameOf(files[i]), files[i].size)]))

CategoryFilesNoneAsLogs(files) ==
  [id \in CategoryIdSet |->
     SelectSeq(files, LAMBDA f : f.category = id \/ (id = "logs" /\ f.category = NoCategory))]

\* categoryFiles: the files of each of the five lists, in walk order
CategoryFiles(files) ==
  [id \in CategoryIdSet |-> SelectSeq(files, LAMBDA f : f.category = id)]

\* the categories array, in its fixed order, with sizeMB by the given rounding
SummaryList(catFiles, round(_)) ==
  [k \in 1..Len(CategoryIds) |->
     [id |-> CategoryIds[k], sizeMB |-> round(SumSizes(catFiles[CategoryIds[k]]))]]

RECURSIVE SumSizeMB(_)
SumSizeMB(cats) == IF cats = << >> THEN 0 ELSE cats[1].sizeMB + SumSizeMB(Tail(cats))

ReclaimableRoundOfSum(files, cats) ==
  toMB(SumSizes(SelectSeq(files, LAMBDA f : f.category \in CategoryIdSet)))

\* categories.reduce((s, c) => s + c.sizeMB, 0)
Reclaimable(files, cats) == SumSizeMB(cats)

\* the snapshot scanRoot returns, from the walked files
Snapshot(walked) ==
  LET Returned(files, catFiles, cats) ==
        [totalUsedMB        |-> toMB(SumSizes(files)),
         totalReclaimableMB |-> Reclaimable(files, cats),
         categories         |-> cats,
         categoryFiles      |-> catFiles]
      Listed(files, catFiles) == Returned(files, catFiles, SummaryList(catFiles, toMB))
      Grouped(files) == Listed(files, CategoryFiles(files))
  IN  Grouped(Deduplicate(walked))

scanRoot(d, ur, us) == Snapshot(WalkFiles(d, ur, us))

\* withinRoot: the resolved path starts with the resolved root plus a separator
withinRootNoSep(filePath) == startsWith(resolve(filePath), resolve(STORAGE_ROOT))

withinRoot(filePath) ==
  startsWith(resolve(filePath), resolve(STORAGE_ROOT) \o sep)

WithinRootById == [id \in PathIds |-> withinRoot(PathById[id])]

\* the file a path names on disk, if any: the entry whose path it resolves to
TargetById ==
  [id \in PathIds |-> { i \in FileIdx : PathStr[i] = resolve(PathById[id]) }]

(***************************************************************************)
(* State                                                                   *)
(***************************************************************************)
VARIABLES
  disk,         \* server files: entry index -> size in bytes, or Absent
  unreadable,   \* directories whose readdir fails
  unstatable,   \* files whose stat fails
  locked,       \* files whose unlink fails (permission, busy)
  allowDelete,  \* process.env.ALLOW_DELETE, read at start-up
  storeFile,    \* storage.json
  clock,        \* history entries made so far: the next entry's id (Date.now())
  extCount,     \* changes made so far by other processes (files, key-value store)
  req,          \* POST /api/clean requests in flight, by slot
  getReq,       \* the GET request in flight or answered
  platform,     \* Platform.OS of the app ("none": no app, only API clients)
  probe,        \* one file of a tree and the category each walk gives it
  many,         \* how many documents the device folder c://t/m holds
  watch,        \* what a caller of the GET routes keeps of the answer before
  data,         \* useState: the snapshot shown
  selected,     \* useState: the category ids whose switch is on
  loading,      \* useState
  cleaning,     \* useState
  directoryUri, \* useState: TRUE once a folder has been granted
  scanLimitReached, \* useState
  mountTask,    \* the effect run at mount: loadOverview (web), loadLocalHistory (android)
  scanTask,     \* scanDeviceStorage in progress
  cleanTask,    \* runClean / runDeviceClean in progress
  ddisk,        \* device files under the granted folder: entry -> size or Absent
  devLocked,    \* device files whose deleteAsync rejects
  kvFull,       \* AsyncStorage.setItem rejects
  localHistory  \* AsyncStorage item HISTORY_KEY

fsVars == << disk, unreadable, unstatable, locked >>

serverVars == << fsVars, allowDelete, storeFile, req, getReq >>

appVars == << data, selected, loading, cleaning, directoryUri, scanLimitReached,
              mountTask, scanTask, cleanTask >>

appVarsButClean == << data, selected, loading, cleaning, directoryUri, scanLimitReached,
                     mountTask, scanTask >>

deviceVars == << ddisk, devLocked, kvFull, localHistory >>

vars == << serverVars, clock, extCount, platform, watch, many, probe, appVars, deviceVars >>

(***************************************************************************)
(* The client (src/frontend/App.js): names from URIs, categorizeName,      *)
(* scanSafTree and buildCategories over the folder the user granted.       *)
(***************************************************************************)
MAX_SCAN_FILES == 1500

\* decodeURIComponent: [ok, value]; an escape that is not a known %XX throws
RECURSIVE decodeURIComponent(_, _)
decodeURIComponent(s, acc) ==
  IF s = << >> THEN [ok |-> TRUE, value |-> acc]
  ELSE IF Head(s) # "%" THEN decodeURIComponent(Tail(s), Append(acc, Head(s)))
  ELSE LET escapes == << << "%", "2", "F" >>, << "%", "3", "A" >>, << "%", "2", "0" >> >>
            chars   == << "/", ":", " " >>
       IN  IF Len(s) >= 3 /\ \E k \in 1..3 : escapes[k] = SubSeq(s, 1, 3)
             THEN decodeURIComponent(SubSeq(s, 4, Len(s)),
                    Append(acc, chars[CHOOSE k \in 1..3 : escapes[k] = SubSeq(s, 1, 3)]))
           ELSE [ok |-> FALSE, value |-> << >>]

guessNameFromUri(uri) ==
  LET popped  == sliceFrom(uri, lastIndexOf(uri, "/") + 1)
      last    == IF popped = << >> THEN uri ELSE popped
      decoded == decodeURIComponent(last, << >>)
  IN  IF decoded.ok THEN decoded.value ELSE last

categorizeName(name, uri) ==
  LET lower == toLowerCase(name \o << " " >> \o uri)
      ext   == sliceFrom(toLowerCase(name), lastIndexOf(name, "."))
  IN  IF \/ includes(lower, sep \o << "c","a","c","h","e" >> \o sep)
         \/ includes(lower, sep \o << "t","m","p" >> \o sep)
        THEN "cache"
      ELSE IF \/ includes(lower, << "d","o","w","n","l","o","a","d","s" >>)
              \/ includes(lower, << "d","o","w","n","l","o","a","d" >>)
        THEN "downloads"
      ELSE IF ext \in MEDIA_EXTS THEN "media"
      ELSE IF ext \in LOG_EXTS THEN "logs"
      ELSE NoCategory

\* The granted folder, c://t for a content:// tree, with its documents, each
\* directory's children in the order readDirectoryAsync returns them
DevRoot == << "c", ":", "/", "/", "t" >>

\* c://t/m, the first child of the granted folder: a folder of many documents
\* named 1, 2, 3, ... of 1024 bytes each
ManyDir == join(DevRoot, << "m" >>)

DevEntries ==
  LET cache    == join(DevRoot, << "c","a","c","h","e" >>)
      dir      == join(DevRoot, << "d" >>)
      download == join(DevRoot, << "d","o","w","n","l","o","a","d" >>)
      alog     == << "a",".","l","o","g" >>
      bmp4     == << "b",".","m","p","4" >>
      ntxt     == << "n",".","t","x","t" >>
  IN  << [parent |-> DevRoot, uri |-> ManyDir, kind |-> "dir"],
         [parent |-> DevRoot, uri |-> join(DevRoot, bmp4), kind |-> "file"],
         [parent |-> DevRoot, uri |-> join(DevRoot, alog), kind |-> "file"],
         [parent |-> DevRoot, uri |-> join(DevRoot, ntxt), kind |-> "file"],
         [parent |-> DevRoot, uri |-> cache, kind |-> "dir"],
         [parent |-> DevRoot, uri |-> dir, kind |-> "dir"],
         [parent |-> DevRoot, uri |-> download, kind |-> "dir"],
         [parent |-> cache, uri |-> join(cache, alog), kind |-> "file"],
         [parent |-> dir, uri |-> join(dir, bmp4), kind |-> "file"],
         [parent |-> dir, uri |-> join(dir, ntxt), kind |-> "file"],
         [parent |-> dir, uri |-> join(dir, alog), kind |-> "file"],
         [parent |-> download, uri |-> join(download, alog), kind |-> "file"],
         \* a document id holding its whole path, as the storage provider encodes it
         [parent |-> dir,
          uri |-> join(DevRoot, << "p","%","3","A","d","%","2","F","c",".","m","p","4" >>),
          kind |-> "file"] >>

DevIdx == 1..Len(DevEntries)

DevFileIdx == { i \in DevIdx : DevEntries[i].kind = "file" }

DevName == [i \in DevFileIdx |-> guessNameFromUri(DevEntries[i].uri)]

DevCategory == [i \in DevFileIdx |-> categorizeName(DevName[i], DevEntries[i].uri)]

\* readDirectoryAsync(uri): the children that exist
DevChildren ==
  [i \in (DevIdx \ DevFileIdx) \cup {0} |->
     SelectSeq([j \in DevIdx |-> j],
               LAMBDA j : DevEntries[j].parent = (IF i = 0 THEN DevRoot ELSE DevEntries[i].uri))]

\* a document of c://t/m is held by the id Len(DevEntries) + k, k its name;
\* the folder holds at most a few documents more than the scan's cap
ManyIds == (Len(DevEntries) + 1)..(Len(DevEntries) + MAX_SCAN_FILES + 20)

ManyUri(i) == join(ManyDir, Digits(i - Len(DevEntries)))

\* the name of a scanned document: guessNameFromUri(uri)
DocName ==
  [i \in DevFileIdx \cup ManyIds |->
     IF i \in DevFileIdx THEN DevName[i] ELSE guessNameFromUri(ManyUri(i))]

\* categorizeName(name, uri) of the documents of c://t/m
ManyCategory == [i \in ManyIds |-> categorizeName(DocName[i], ManyUri(i))]

DevRecord(dd, i) ==
  IF i \in DevFileIdx THEN [uri |-> i, size |-> dd[i], category |-> DevCategory[i]]
  ELSE [uri |-> i, size |-> 1024, category |-> ManyCategory[i]]

\* readDirectoryAsync(uri) as the folder is now
readDirectoryAsync(i) ==
  IF i # 0 /\ DevEntries[i].uri = ManyDir
    THEN [k \in 1..many |-> Len(DevEntries) + k]
    ELSE DevChildren[i]

\* scanSafTree(uri, files), uri given as an entry (0: the granted folder), and
\* the loop over a directory's children, which returns once the cap is reached
\* (the children are gone through in order, the first half and then the second,
\* so that a folder of a thousand documents needs no thousand nested calls)
RECURSIVE scanSafTree(_, _, _), scanChildren(_, _, _)
scanSafTree(dd, i, files) ==
  IF Len(files) >= MAX_SCAN_FILES THEN files
  ELSE IF i \in DevFileIdx
    THEN IF dd[i] = Absent THEN files ELSE Append(files, DevRecord(dd, i))
  ELSE IF i > Len(DevEntries) THEN Append(files, DevRecord(dd, i))
  ELSE scanChildren(dd, readDirectoryAsync(i), files)

scanChildren(dd, children, files) ==
  IF children = << >> THEN files
  ELSE IF Len(files) >= MAX_SCAN_FILES THEN files
  ELSE IF Len(children) = 1 THEN scanSafTree(dd, children[1], files)
  ELSE LET h == Len(children) \div 2
       IN  scanChildren(dd, SubSeq(children, h + 1, Len(children)),
                        scanChildren(dd, SubSeq(children, 1, h), files))

\* buildCategories, lines 88-101: the same grouping, on the guessed names
SliceOneClient(group) == Tail(group)

DeduplicateClient(files) ==
  LET n == Len(files)
      Grouped(keys) ==
        LET group(key) == SelectSeq([j \in 1..n |-> j], LAMBDA j : keys[j] = key)
            reassigned ==
              { i \in 1..n : LET rest == SliceOneClient(group(keys[i]))
                             IN  \E k \in 1..Len(rest) : rest[k] = i }
        IN  Materialize([i \in 1..n |->
               IF i \in reassigned THEN [files[i] EXCEPT !.category = "duplicates"]
               ELSE files[i]])
  IN  Grouped(Materialize([i \in 1..n |-> DupKey(DocName[files[i].uri], files[i].size)]))

\* Math.round(bytes / (1024 * 1024))
roundMB(bytes) == RoundDivMB(bytes)

ReclaimableClient(files, list) == SumSizeMB(list)

\* buildCategories(files): { list, categories, totalUsedMB, totalReclaimableMB }
buildCategories(scanned) ==
  LET Returned(files, categories, list) ==
        [list |-> list, categories |-> categories,
         totalUsedMB |-> roundMB(SumSizes(files)),
         totalReclaimableMB |-> ReclaimableClient(files, list)]
      Listed(files, categories) == Returned(files, categories, SummaryList(categories, roundMB))
      Grouped(files) == Listed(files, CategoryFiles(files))
  IN  Grouped(DeduplicateClient(scanned))

fallbackData ==
  [totalUsedMB |-> 11600, totalReclaimableMB |-> 4460, history |-> << >>,
   categories |-> << [id |-> "cache", sizeMB |-> 1240],
                     [id |-> "downloads", sizeMB |-> 860],
                     [id |-> "duplicates", sizeMB |-> 430],
                     [id |-> "media", sizeMB |-> 1720],
                     [id |-> "logs", sizeMB |-> 210] >>]

(***************************************************************************)
(* The persisted ledger (storage.json): loadStore / saveStore              *)
(***************************************************************************)
StoreMissing   == [kind |-> "missing", isArray |-> FALSE, history |-> << >>]
StoreCorrupt   == [kind |-> "corrupt", isArray |-> FALSE, history |-> << >>]
\* valid JSON whose history member is absent or not an array
StoreNoHistory == [kind |-> "json", isArray |-> FALSE, history |-> << >>]
StoreOf(h)     == [kind |-> "json", isArray |-> TRUE, history |-> h]

emptyStore == [history |-> << >>]

loadStore(file) ==
  IF file.kind = "missing" THEN emptyStore
  ELSE IF file.kind = "corrupt" THEN emptyStore
  ELSE [history |-> IF file.isArray THEN file.history ELSE << >>]

saveStore(store) == StoreOf(store.history)

\* store.history.unshift(entry); store.history = store.history.slice(0, 10)
UnshiftNoSlice(history, entry) == << entry >> \o history

UnshiftSlice(history, entry) == sliceTo(<< entry >> \o history, HISTORY_CAP)

HistoryEntry(now, cleanedBytes, cleanedFiles, targetIds, simulated) ==
  [id |-> now, cleanedMB |-> toMB(cleanedBytes), cleanedFiles |-> cleanedFiles,
   categories |-> targetIds, simulated |-> simulated]

(***************************************************************************)
(* POST /api/clean                                                         *)
(***************************************************************************)
Reqs == {1, 2}

BodyUndefined == [kind |-> "undefined", ids |-> << >>]
BodyNotArray  == [kind |-> "notArray", ids |-> << >>]
BodyOf(ids)   == [kind |-> "array", ids |-> ids]

NewSetKeepAll(arr, acc) == acc \o arr

\* new Set(categories): the distinct elements in first-insertion order
RECURSIVE NewSet(_, _)
NewSet(arr, acc) ==
  IF arr = << >> THEN acc
  ELSE IF \E k \in 1..Len(acc) : acc[k] = Head(arr) THEN NewSet(Tail(arr), acc)
  ELSE NewSet(Tail(arr), Append(acc, Head(arr)))

TargetIdsDefaultAll(body) ==
  IF body.kind = "array" /\ body.ids # << >> THEN NewSet(body.ids, << >>)
  ELSE CategoryIds

\* Array.isArray(categories) ? new Set(categories) : new Set()
TargetIds(body) ==
  IF body.kind = "array" THEN NewSet(body.ids, << >>) ELSE << >>

\* scan.categoryFiles[id] || [] ; an inherited key yields a value that
\* filesToClean.push(...list) cannot spread
Throws(targetIds) ==
  LET inherited == { "constructor", "toString", "__proto__" }
  IN  \E k \in 1..Len(targetIds) : targetIds[k] \in inherited

ListOf(scan, id) ==
  IF id \in CategoryIdSet THEN scan.categoryFiles[id] ELSE << >>

FilesToCleanFirstOnly(scan, targetIds) ==
  IF targetIds = << >> THEN << >> ELSE ListOf(scan, targetIds[1])

FilesToClean(scan, targetIds) ==
  Flatten([k \in 1..Len(targetIds) |-> ListOf(scan, targetIds[k])])

DeletionAlways(allow) == TRUE

\* if (ALLOW_DELETE)
DeletionEnabled(allow) == allow

NoScan == [totalUsedMB |-> 0, totalReclaimableMB |-> 0,
           categories |-> << >>, categoryFiles |-> [id \in CategoryIdSet |-> << >>]]

NoResp == [kind |-> "none"]

IdleReq ==
  [pc |-> "Idle", body |-> BodyUndefined, targetIds |-> << >>, scan |-> NoScan,
   filesToClean |-> << >>, i |-> 0, cleanedBytes |-> 0, cleanedFiles |-> 0,
   simulated |-> FALSE, epoch |-> 0, resp |-> NoResp]

\* the position of the next candidate, from i on, that passes withinRoot
\* (Len + 1 when there is none): the loop's `continue` on line 221
RECURSIVE NextCandidate(_, _)
NextCandidate(files, i) ==
  IF i > Len(files) THEN i
  ELSE IF WithinRootById[files[i].path] THEN i
  ELSE NextCandidate(files, i + 1)

OnUnlinkFailureAbort(files, i) == Len(files) + 1

\* catch { continue; }
OnUnlinkFailure(files, i) == NextCandidate(files, i + 1)

UnlinkSucceedsWhenGone(d, lk, path) ==
  \A i \in TargetById[path] : i \notin lk

\* fs.promises.unlink succeeds: the file exists and may be removed
UnlinkSucceeds(d, lk, path) ==
  \E i \in TargetById[path] : d[i] # Absent /\ i \notin lk

CleansInFlight ==
  Cardinality({ r \in Reqs : req[r].pc \in {"ScanningBaseline", "Deleting", "Rescanning"} })

\* the cleans begun so far
Started ==
  clock + CleansInFlight
        + (IF cleanTask.pc \in {"Fetching", "Scanning", "Deleting", "Rescanning", "LoadingHistory"}
             THEN 1 ELSE 0)

\* a request arrives: lines 204-205, then scanRoot is awaited; requests take the
\* lowest free slot
Receive(r, body) ==
  /\ req[r].pc = "Idle"
  /\ \A q \in Reqs : q < r => req[q].pc # "Idle"
  /\ req' = [req EXCEPT ![r] = [IdleReq EXCEPT !.pc = "ScanningBaseline",
                                               !.body = body,
                                               !.targetIds = TargetIds(body)]]
  /\ UNCHANGED << fsVars, allowDelete, storeFile, getReq, clock, extCount,
                  platform, watch, many, probe, deviceVars >>

\* lines 207-234 up to the first await of the batch: the baseline scan ends, the
\* candidates are listed and either summed (simulate) or the first unlink is issued
Baseline(r) ==
  /\ req[r].pc = "ScanningBaseline"
  /\ LET ids == req[r].targetIds
         Issued(scan, ftc, i) ==
           [req EXCEPT ![r] =
              IF Throws(ids)
                THEN [@ EXCEPT !.pc = "Error", !.scan = scan, !.epoch = extCount]
              ELSE IF DeletionEnabled(allowDelete)
                THEN [@ EXCEPT !.pc = IF i > Len(ftc) THEN "Rescanning" ELSE "Deleting",
                               !.scan = scan, !.filesToClean = ftc, !.i = i,
                               !.epoch = extCount]
              ELSE [@ EXCEPT !.pc = "Rescanning", !.scan = scan, !.filesToClean = ftc,
                             !.simulated = TRUE, !.cleanedBytes = SumSizes(ftc),
                             !.cleanedFiles = Len(ftc), !.epoch = extCount]]
         Listed(scan, ftc) == Issued(scan, ftc, NextCandidate(ftc, 1))
         Scanned(scan) == Listed(scan, FilesToClean(scan, ids))
     IN  req' = Scanned(scanRoot(disk, unreadable, unstatable))
  /\ UNCHANGED << fsVars, allowDelete, storeFile, getReq, clock, extCount,
                  platform, watch, many, probe, appVars, deviceVars >>

UnlinkNotAwaited(r) ==
  /\ req[r].pc \in {"Deleting", "Rescanning"}
  /\ req[r].i \in 1..Len(req[r].filesToClean)
  /\ LET ftc == req[r].filesToClean
         f   == ftc[req[r].i]
         ok  == UnlinkSucceeds(disk, locked, f.path)
     IN  /\ disk' = IF ok
                      THEN [k \in FileIdx |-> IF k \in TargetById[f.path] THEN Absent ELSE disk[k]]
                      ELSE disk
         /\ req' = [req EXCEPT ![r] =
               [@ EXCEPT !.cleanedBytes = IF ok THEN @ + f.size ELSE @,
                         !.cleanedFiles = IF ok THEN @ + 1 ELSE @,
                         !.i = NextCandidate(ftc, req[r].i + 1),
                         !.pc = "Rescanning"]]
  /\ UNCHANGED << unreadable, unstatable, locked, allowDelete, storeFile, getReq,
                  clock, extCount, platform, watch, many, probe, appVars, deviceVars >>

\* lines 222-228: the pending unlink ends; on success the file is gone and is
\* counted with the size the baseline scan saw, on failure it is skipped
Unlink(r) ==
  /\ req[r].pc = "Deleting"
  /\ LET ftc == req[r].filesToClean
         Counted(f, ok, j) ==
           /\ disk' = IF ok
                        THEN [k \in FileIdx |-> IF k \in TargetById[f.path] THEN Absent ELSE disk[k]]
                        ELSE disk
           /\ req' = [req EXCEPT ![r] =
                 [@ EXCEPT !.cleanedBytes = IF ok THEN @ + f.size ELSE @,
                           !.cleanedFiles = IF ok THEN @ + 1 ELSE @,
                           !.i = j,
                           !.pc = IF j > Len(ftc) THEN "Rescanning" ELSE "Deleting"]]
         Ended(f, ok) ==
           Counted(f, ok, IF ok THEN NextCandidate(ftc, req[r].i + 1)
                          ELSE OnUnlinkFailure(ftc, req[r].i))
         Pending(f) == Ended(f, UnlinkSucceeds(disk, locked, f.path))
     IN  Pending(ftc[req[r].i])
  /\ UNCHANGED << unreadable, unstatable, locked, allowDelete, storeFile, getReq,
                  clock, extCount, platform, watch, many, probe, appVars, deviceVars >>

RecordStaleRead(r) ==
  /\ req[r].pc = "Rescanning"
  /\ LET updatedScan == scanRoot(disk, unreadable, unstatable)
         read    == loadStore(storeFile).history
         stale   == IF read # << >> /\ \E q \in Reqs \ {r} : req[q].pc = "Done"
                      THEN Tail(read) ELSE read
         entry   == HistoryEntry(clock + 1, req[r].cleanedBytes, req[r].cleanedFiles,
                                 req[r].targetIds, req[r].simulated)
         history == UnshiftSlice(stale, entry)
     IN  /\ storeFile' = saveStore([history |-> history])
         /\ req' = [req EXCEPT ![r] =
               [@ EXCEPT !.pc = "Done",
                         !.resp = [kind |-> "clean", scan |-> updatedScan,
                                   cleanedMB |-> toMB(req[r].cleanedBytes),
                                   cleanedFiles |-> req[r].cleanedFiles,
                                   simulated |-> req[r].simulated,
                                   history |-> history]]]
  /\ clock' = clock + 1
  /\ UNCHANGED << fsVars, allowDelete, getReq, extCount, platform, watch, many, probe, appVars, deviceVars >>

RecordFromBaseline(r) ==
  /\ req[r].pc = "Rescanning"
  /\ LET store   == loadStore(storeFile)
         entry   == HistoryEntry(clock + 1, req[r].cleanedBytes, req[r].cleanedFiles,
                                 req[r].targetIds, req[r].simulated)
         history == UnshiftSlice(store.history, entry)
     IN  /\ storeFile' = saveStore([history |-> history])
         /\ req' = [req EXCEPT ![r] =
               [@ EXCEPT !.pc = "Done",
                         !.resp = [kind |-> "clean", scan |-> req[r].scan,
                                   cleanedMB |-> toMB(req[r].cleanedBytes),
                                   cleanedFiles |-> req[r].cleanedFiles,
                                   simulated |-> req[r].simulated,
                                   history |-> history]]]
  /\ clock' = clock + 1
  /\ UNCHANGED << fsVars, allowDelete, getReq, extCount, platform, watch, many, probe, appVars, deviceVars >>

\* lines 236-255: the rescan ends, then with no await in between the ledger is
\* read, the entry is put first, the ledger is cut and written, and the response
\* sent (fs.writeFileSync is taken to succeed: the handler has no path for its failure)
Record(r) ==
  /\ req[r].pc = "Rescanning"
  /\ LET updatedScan == scanRoot(disk, unreadable, unstatable)
         store   == loadStore(storeFile)
         entry   == HistoryEntry(clock + 1, req[r].cleanedBytes, req[r].cleanedFiles,
                                 req[r].targetIds, req[r].simulated)
         history == UnshiftSlice(store.history, entry)
     IN  /\ storeFile' = saveStore([history |-> history])
         /\ req' = [req EXCEPT ![r] =
               [@ EXCEPT !.pc = "Done",
                         !.resp = [kind |-> "clean", scan |-> updatedScan,
                                   cleanedMB |-> toMB(req[r].cleanedBytes),
                                   cleanedFiles |-> req[r].cleanedFiles,
                                   simulated |-> req[r].simulated,
                                   history |-> history]]]
  /\ clock' = clock + 1
  /\ UNCHANGED << fsVars, allowDelete, getReq, extCount, platform, watch, many, probe, appVars, deviceVars >>

\* the response has been delivered (or the failed request dropped): the slot is free
Return(r) ==
  /\ req[r].pc \in {"Done", "Error"}
  /\ req' = [req EXCEPT ![r] = IdleReq]
  /\ UNCHANGED << fsVars, allowDelete, storeFile, getReq, clock, extCount,
                  platform, watch, many, probe, deviceVars >>

(***************************************************************************)
(* GET /api/overview, GET /api/history                                     *)
(***************************************************************************)
IdleGet == [pc |-> "Idle", history |-> << >>, resp |-> NoResp]

\* A caller that compares consecutive answers keeps the last answer and how
\* things stood when that call was made (the cleans recorded and the changes by
\* other processes so far, and whether a clean was in flight); no other caller
\* keeps anything.
NoWatch ==
  [on |-> FALSE, from |-> [clock |-> 0, ext |-> 0, quiet |-> FALSE],
   prev |-> NoResp, prevFrom |-> [clock |-> 0, ext |-> 0, quiet |-> FALSE]]

CallMade ==
  IF watch.on
    THEN [watch EXCEPT !.from = [clock |-> clock, ext |-> extCount,
                                 quiet |-> CleansInFlight = 0]]
    ELSE watch

AnswerKept ==
  IF watch.on THEN [watch EXCEPT !.prev = getReq.resp, !.prevFrom = watch.from] ELSE watch

\* line 190: the ledger is read, then scanRoot is awaited
OverviewReceive ==
  /\ getReq.pc = "Idle"
  /\ getReq' = [IdleGet EXCEPT !.pc = "Scanning", !.history = loadStore(storeFile).history]
  /\ watch' = CallMade
  /\ UNCHANGED << fsVars, allowDelete, storeFile, req, clock, extCount,
                  platform, many, probe, deviceVars >>

\* lines 191-195
OverviewRespond ==
  /\ getReq.pc = "Scanning"
  /\ getReq' = [getReq EXCEPT !.pc = "Done",
                  !.resp = [kind |-> "overview",
                            scan |-> scanRoot(disk, unreadable, unstatable),
                            history |-> getReq.history]]
  /\ UNCHANGED << fsVars, allowDelete, storeFile, req, clock, extCount,
                  platform, watch, many, probe, appVars, deviceVars >>

HistoryGetClearing ==
  /\ getReq.pc = "Idle"
  /\ getReq' = [IdleGet EXCEPT !.pc = "Done",
                  !.resp = [kind |-> "history", scan |-> NoScan,
                            history |-> loadStore(storeFile).history]]
  /\ storeFile' = saveStore(emptyStore)
  /\ watch' = CallMade
  /\ UNCHANGED << fsVars, allowDelete, req, clock, extCount,
                  platform, many, probe, appVars, deviceVars >>

\* lines 198-201
HistoryGet ==
  /\ getReq.pc = "Idle"
  /\ getReq' = [IdleGet EXCEPT !.pc = "Done",
                  !.resp = [kind |-> "history", scan |-> NoScan,
                            history |-> loadStore(storeFile).history]]
  /\ watch' = CallMade
  /\ UNCHANGED << fsVars, allowDelete, storeFile, req, clock, extCount,
                  platform, many, probe, appVars, deviceVars >>

GetReturn ==
  /\ getReq.pc = "Done"
  /\ getReq' = IdleGet
  /\ watch' = AnswerKept
  /\ UNCHANGED << fsVars, allowDelete, storeFile, req, clock, extCount,
                  platform, many, probe, deviceVars >>

(***************************************************************************)
(* Other processes acting on the server's files                            *)
(***************************************************************************)
ExternalRemove(i) ==
  /\ disk[i] # Absent
  /\ disk' = [disk EXCEPT ![i] = Absent]
  /\ extCount' = extCount + 1
  /\ UNCHANGED << unreadable, unstatable, locked, allowDelete, storeFile, req, getReq,
                  clock, platform, watch, many, probe, appVars, deviceVars >>

ExternalCreate(i, size) ==
  /\ disk[i] = Absent
  /\ disk' = [disk EXCEPT ![i] = size]
  /\ extCount' = extCount + 1
  /\ UNCHANGED << unreadable, unstatable, locked, allowDelete, storeFile, req, getReq,
                  clock, platform, watch, many, probe, appVars, deviceVars >>

(***************************************************************************)
(* The app (App.js)                                                        *)
(***************************************************************************)
NoData ==
  [set |-> FALSE, totalUsedMB |-> 0, totalReclaimableMB |-> 0,
   categories |-> << >>, history |-> << >>]

DataOf(totalUsedMB, totalReclaimableMB, categories, history) ==
  [set |-> TRUE, totalUsedMB |-> totalUsedMB, totalReclaimableMB |-> totalReclaimableMB,
   categories |-> categories, history |-> history]

\* the response body as the app reads it: { ...scan, history }
DataOfJson(resp) ==
  DataOf(resp.scan.totalUsedMB, resp.scan.totalReclaimableMB, resp.scan.categories,
         resp.history)

NoSummary ==
  [list |-> << >>, categories |-> [id \in CategoryIdSet |-> << >>],
   totalUsedMB |-> 0, totalReclaimableMB |-> 0]

\* collected: updatedFiles.length of runDeviceClean, files.length of scanDeviceStorage
IdleTask ==
  [pc |-> "Idle", ids |-> << >>, slot |-> 0, targetFiles |-> << >>, i |-> 0,
   cleanedBytes |-> 0, cleanedFiles |-> 0, summary |-> NoSummary, collected |-> 0,
   nextHistory |-> << >>]

IdleScan == [pc |-> "Idle", summary |-> NoSummary, collected |-> 0, limitReached |-> FALSE]

\* nextSelected: every id of the categories array is switched on
AllSelected(categories) == { categories[k].id : k \in 1..Len(categories) }

\* Object.keys(selected).filter((id) => selected[id]); the keys were inserted in
\* the order of the categories array
selectedIds == SelectSeq(CategoryIds, LAMBDA id : id \in selected)

\* loadLocalHistory: null, unparsable and non-array items give []
loadLocalHistory(raw) ==
  IF raw.kind = "missing" THEN << >>
  ELSE IF raw.kind = "corrupt" THEN << >>
  ELSE IF raw.isArray THEN raw.history ELSE << >>

\* saveLocalHistory: a rejected setItem is swallowed and the item stays as it was
saveLocalHistory(raw, full, history) ==
  IF full THEN raw ELSE StoreOf(history)

\* [entry, ...history].slice(0, 10)
NextHistory(entry, history) == sliceTo(<< entry >> \o history, CLIENT_HISTORY_CAP)

ClientEntry(now, cleanedBytes, cleanedFiles, ids) ==
  [id |-> now, cleanedMB |-> roundMB(cleanedBytes), cleanedFiles |-> cleanedFiles,
   categories |-> ids, simulated |-> FALSE]

\* prev.categories.map((c) => selected[c.id] ? { ...c, sizeMB: 0 } : c)
ZeroSelected(categories, ids) ==
  [k \in 1..Len(categories) |->
     IF \E j \in 1..Len(ids) : ids[j] = categories[k].id
       THEN [categories[k] EXCEPT !.sizeMB = 0] ELSE categories[k]]

\* next.categories.reduce((sum, c) => sum + c.sizeMB, 0)
LocalReclaimed(prev, next) == SumSizeMB(next)

\* ---- web: the backend is scanned -------------------------------------------
\* loadOverview, lines 145-148: the request reaches the server
LoadOverviewSend ==
  /\ platform = "web"
  /\ mountTask = "Fetching"
  /\ OverviewReceive
  /\ mountTask' = "Awaiting"
  /\ UNCHANGED << data, selected, loading, cleaning, directoryUri, scanLimitReached,
                  scanTask, cleanTask >>

\* lines 149-156 and 165-167
LoadOverviewOk ==
  /\ platform = "web"
  /\ mountTask = "Awaiting"
  /\ getReq.pc = "Done"
  /\ data' = DataOfJson(getReq.resp)
  /\ selected' = AllSelected(getReq.resp.scan.categories)
  /\ loading' = FALSE
  /\ mountTask' = "Idle"
  /\ GetReturn
  /\ UNCHANGED << cleaning, directoryUri, scanLimitReached, scanTask, cleanTask >>

\* lines 157-167: the fetch fails and the sample data is shown
LoadOverviewFail ==
  /\ platform = "web"
  /\ mountTask = "Fetching"
  /\ data' = DataOf(fallbackData.totalUsedMB, fallbackData.totalReclaimableMB,
                    fallbackData.categories, fallbackData.history)
  /\ selected' = AllSelected(fallbackData.categories)
  /\ loading' = FALSE
  /\ mountTask' = "Idle"
  /\ UNCHANGED << serverVars, clock, extCount, platform, watch, many, probe, cleaning, directoryUri,
                  scanLimitReached, scanTask, cleanTask, deviceVars >>

\* the Switch of one category
ToggleSwitch(id) ==
  /\ platform # "none"
  /\ data.set
  /\ selected' = IF id \in selected THEN selected \ {id} ELSE selected \cup {id}
  /\ UNCHANGED << serverVars, clock, extCount, platform, watch, many, probe, data, loading, cleaning,
                  directoryUri, scanLimitReached, mountTask, scanTask, cleanTask,
                  deviceVars >>

\* toggleAll, lines 412-420
toggleAll ==
  /\ platform # "none"
  /\ data.set
  /\ selected' = IF AllSelected(data.categories) \subseteq selected
                   THEN {} ELSE AllSelected(data.categories)
  /\ UNCHANGED << serverVars, clock, extCount, platform, watch, many, probe, data, loading, cleaning,
                  directoryUri, scanLimitReached, mountTask, scanTask, cleanTask,
                  deviceVars >>

\* the Run Clean button: disabled={loading || selectedIds.length === 0 || cleaning}
CanPressClean == ~loading /\ selectedIds # << >> /\ ~cleaning

\* runClean, lines 377-385: the press, up to the fetch
RunCleanPress ==
  /\ platform = "web"
  /\ CanPressClean
  /\ data.set
  /\ cleaning' = TRUE
  /\ cleanTask' = [IdleTask EXCEPT !.pc = "Fetching", !.ids = selectedIds]
  /\ UNCHANGED << serverVars, clock, extCount, platform, watch, many, probe, data, selected, loading,
                  directoryUri, scanLimitReached, mountTask, scanTask, deviceVars >>

\* the request reaches the server
RunCleanSend(r) ==
  /\ platform = "web"
  /\ cleanTask.pc = "Fetching"
  /\ Receive(r, BodyOf(cleanTask.ids))
  /\ cleanTask' = [cleanTask EXCEPT !.pc = "Awaiting", !.slot = r]
  /\ UNCHANGED << data, selected, loading, cleaning, directoryUri, scanLimitReached,
                  mountTask, scanTask >>

\* lines 386-392 and 407-409
RunCleanOk(r) ==
  /\ platform = "web"
  /\ cleanTask.pc = "Awaiting"
  /\ cleanTask.slot = r
  /\ req[r].pc = "Done"
  /\ data' = DataOfJson(req[r].resp)
  /\ cleaning' = FALSE
  /\ cleanTask' = IdleTask
  /\ Return(r)
  /\ UNCHANGED << selected, loading, directoryUri, scanLimitReached, mountTask, scanTask >>

\* lines 393-409: the fetch fails and the clean is simulated on the shown data
RunCleanFail ==
  /\ platform = "web"
  /\ cleanTask.pc = "Fetching"
  /\ data' = IF data.set
               THEN LET next == ZeroSelected(data.categories, cleanTask.ids)
                    IN  [data EXCEPT !.categories = next,
                                     !.totalReclaimableMB = LocalReclaimed(data, next)]
               ELSE data
  /\ cleaning' = FALSE
  /\ cleanTask' = IdleTask
  /\ UNCHANGED << serverVars, clock, extCount, platform, watch, many, probe, selected, loading, directoryUri,
                  scanLimitReached, mountTask, scanTask, deviceVars >>

\* ---- android: the granted folder is scanned on the device ------------------
\* the mount effect, lines 194-203: the stored history is put under the shown data
MountHistory ==
  /\ platform = "android"
  /\ mountTask = "LoadingHistory"
  /\ data' = LET history == loadLocalHistory(localHistory)
             IN  IF data.set THEN [data EXCEPT !.history = history]
                 ELSE DataOf(fallbackData.totalUsedMB, fallbackData.totalReclaimableMB,
                             fallbackData.categories, history)
  /\ mountTask' = "Idle"
  /\ UNCHANGED << serverVars, clock, extCount, platform, watch, many, probe, selected, loading, cleaning,
                  directoryUri, scanLimitReached, scanTask, cleanTask, deviceVars >>

\* requestDirectory with the folder granted, and scanDeviceStorage up to its walk,
\* lines 283-259 (a refused or failed request changes nothing modelled here);
\* the exploration has the folder picked while no scan and no clean is running
requestDirectory ==
  /\ platform = "android"
  /\ scanTask.pc = "Idle"
  /\ cleanTask.pc = "Idle"
  /\ directoryUri' = TRUE
  /\ loading' = TRUE
  /\ scanLimitReached' = FALSE
  /\ scanTask' = [IdleScan EXCEPT !.pc = "Walking"]
  /\ UNCHANGED << serverVars, clock, extCount, platform, watch, many, probe, data, selected, cleaning,
                  mountTask, cleanTask, deviceVars >>

DeviceScan(dd) == scanSafTree(dd, 0, << >>)

\* lines 259-264: the walk ends (taken at one instant of the folder)
DeviceScanWalk ==
  /\ scanTask.pc = "Walking"
  /\ LET Walked(files) ==
           [pc |-> "LoadingHistory", summary |-> buildCategories(files),
            collected |-> Len(files), limitReached |-> Len(files) >= MAX_SCAN_FILES]
     IN  /\ scanTask' = Walked(DeviceScan(ddisk))
         /\ scanLimitReached' = scanTask'.limitReached
  /\ UNCHANGED << serverVars, clock, extCount, platform, watch, many, probe, data, selected, loading,
                  cleaning, directoryUri, mountTask, cleanTask, deviceVars >>

\* lines 265-280
DeviceScanFinish ==
  /\ scanTask.pc = "LoadingHistory"
  /\ data' = DataOf(scanTask.summary.totalUsedMB, scanTask.summary.totalReclaimableMB,
                    scanTask.summary.list, loadLocalHistory(localHistory))
  /\ selected' = AllSelected(scanTask.summary.list)
  /\ loading' = FALSE
  /\ scanTask' = IdleScan
  /\ UNCHANGED << serverVars, clock, extCount, platform, watch, many, probe, cleaning, directoryUri,
                  scanLimitReached, mountTask, cleanTask, deviceVars >>

\* runDeviceClean, lines 316-321: the press, up to the baseline walk
RunDeviceCleanPress ==
  /\ platform = "android"
  /\ CanPressClean
  /\ directoryUri
  /\ data.set
  /\ cleaning' = TRUE
  /\ cleanTask' = [IdleTask EXCEPT !.pc = "Scanning", !.ids = selectedIds]
  /\ UNCHANGED << serverVars, clock, extCount, platform, watch, many, probe, data, selected, loading,
                  directoryUri, scanLimitReached, mountTask, scanTask, deviceVars >>

\* summary.categories[id] of every selected id, in turn
TargetFiles(summary, ids) ==
  Flatten([k \in 1..Len(ids) |-> summary.categories[ids[k]]])

\* lines 320-331: the baseline walk ends and the targets are listed
DevBaseline ==
  /\ cleanTask.pc = "Scanning"
  /\ LET Listed(targetFiles) ==
           [cleanTask EXCEPT
              !.pc = IF targetFiles = << >> THEN "Rescanning" ELSE "Deleting",
              !.targetFiles = targetFiles, !.i = 1]
         Scanned(summary) == Listed(TargetFiles(summary, cleanTask.ids))
     IN  cleanTask' = Scanned(buildCategories(DeviceScan(ddisk)))
  /\ UNCHANGED << serverVars, clock, extCount, platform, watch, many, probe, data, selected, loading,
                  cleaning, directoryUri, scanLimitReached, mountTask, scanTask,
                  deviceVars >>

\* deleteAsync(uri, { idempotent: true }) resolves: a file already gone is no error
DeleteSucceeds(lk, uri) == uri \notin lk

\* lines 333-341: one deleteAsync ends
DevDelete ==
  /\ cleanTask.pc = "Deleting"
  /\ LET f  == cleanTask.targetFiles[cleanTask.i]
         ok == DeleteSucceeds(devLocked, f.uri)
         j  == cleanTask.i + 1
     IN  /\ ddisk' = IF ok THEN [ddisk EXCEPT ![f.uri] = Absent] ELSE ddisk
         /\ cleanTask' = [cleanTask EXCEPT
                            !.cleanedBytes = IF ok THEN @ + f.size ELSE @,
                            !.cleanedFiles = IF ok THEN @ + 1 ELSE @,
                            !.i = j,
                            !.pc = IF j > Len(cleanTask.targetFiles)
                                     THEN "Rescanning" ELSE "Deleting"]
  /\ UNCHANGED << serverVars, clock, extCount, platform, watch, many, probe, appVarsButClean,
                  devLocked, kvFull, localHistory >>

\* lines 343-345: the second walk ends
DevRescan ==
  /\ cleanTask.pc = "Rescanning"
  /\ LET Walked(updatedFiles) ==
           [cleanTask EXCEPT !.pc = "LoadingHistory",
                             !.collected = Len(updatedFiles),
                             !.summary = buildCategories(updatedFiles)]
     IN  cleanTask' = Walked(DeviceScan(ddisk))
  /\ UNCHANGED << serverVars, clock, extCount, platform, watch, many, probe, appVarsButClean, deviceVars >>

\* lines 346-354: the stored history is read, the entry made and put first, and
\* the write is issued
DevLoadHistory ==
  /\ cleanTask.pc = "LoadingHistory"
  /\ LET history == loadLocalHistory(localHistory)
         entry   == ClientEntry(clock + 1, cleanTask.cleanedBytes,
                                cleanTask.cleanedFiles, cleanTask.ids)
     IN  cleanTask' = [cleanTask EXCEPT !.pc = "Saving",
                                        !.nextHistory = NextHistory(entry, history)]
  /\ clock' = clock + 1
  /\ UNCHANGED << serverVars, extCount, platform, watch, many, probe, appVarsButClean, deviceVars >>

\* lines 354-369: the write ends, kept or not, and the new snapshot is shown
DevSave ==
  /\ cleanTask.pc = "Saving"
  /\ localHistory' = saveLocalHistory(localHistory, kvFull, cleanTask.nextHistory)
  /\ data' = DataOf(cleanTask.summary.totalUsedMB, cleanTask.summary.totalReclaimableMB,
                    cleanTask.summary.list, cleanTask.nextHistory)
  /\ cleaning' = FALSE
  /\ cleanTask' = IdleTask
  /\ UNCHANGED << serverVars, clock, extCount, platform, watch, many, probe, selected, loading,
                  directoryUri, scanLimitReached, mountTask, scanTask,
                  ddisk, devLocked, kvFull >>

\* ---- other processes on the device ------------------------------------------
ExternalDevRemove(i) ==
  /\ ddisk[i] # Absent
  /\ ddisk' = [ddisk EXCEPT ![i] = Absent]
  /\ extCount' = extCount + 1
  /\ UNCHANGED << serverVars, clock, platform, watch, many, probe, appVars, devLocked, kvFull, localHistory >>

\* another app puts n more documents into c://t/m
ExternalDevAdd(n) ==
  /\ many' = many + n
  /\ extCount' = extCount + 1
  /\ UNCHANGED << serverVars, clock, platform, watch, probe, appVars, deviceVars >>

\* the key-value store runs out of room, or gets room again
ExternalKv ==
  /\ kvFull' = ~kvFull
  /\ extCount' = extCount + 1
  /\ UNCHANGED << serverVars, clock, platform, watch, many, probe, appVars, ddisk, devLocked, localHistory >>

(***************************************************************************)
(* One file met by both walks: the category the server's walk gives its   *)
(* full path (line 100) and the category the app's walk gives its name and *)
(* URI (App.js lines 240-241)                                              *)
(***************************************************************************)
NoProbe ==
  [dirs |-> << >>, name |-> << >>, encoded |-> FALSE, server |-> "unset", client |-> "unset"]

\* path.join(current, entry.name), from the root down to the file
RECURSIVE joinAll(_, _)
joinAll(base, names) ==
  IF names = << >> THEN base ELSE joinAll(join(base, Head(names)), Tail(names))

\* the URI readDirectoryAsync returns for a document: the parent's URI and the
\* name, or a document id that holds the whole path with ":" and "/" escaped
childUri(dirs, name, encoded) ==
  LET escape(c) == IF c = "/" THEN << "%", "2", "F" >>
                   ELSE IF c = ":" THEN << "%", "3", "A" >> ELSE << c >>
      docId == joinAll(<< "p", ":" >> \o Head(dirs \o << name >>), Tail(dirs \o << name >>))
  IN  IF encoded
        THEN join(DevRoot, Flatten([k \in 1..Len(docId) |-> escape(docId[k])]))
        ELSE joinAll(DevRoot, dirs \o << name >>)

\* scanRoot, lines 91-101: the record pushed for the file holds categorizeFile(fullPath)
ClassifyServer ==
  /\ probe.server = "unset"
  /\ probe' = [probe EXCEPT !.server = categorizeFile(joinAll(STORAGE_ROOT, probe.dirs \o << probe.name >>))]
  /\ UNCHANGED << serverVars, clock, extCount, platform, watch, many, appVars, deviceVars >>

\* scanSafTree, lines 239-247: the record pushed holds categorizeName(name, uri)
ClassifyClient ==
  /\ probe.client = "unset"
  /\ LET uri == childUri(probe.dirs, probe.name, probe.encoded)
     IN  probe' = [probe EXCEPT !.client = categorizeName(guessNameFromUri(uri), uri)]
  /\ UNCHANGED << serverVars, clock, extCount, platform, watch, many, appVars, deviceVars >>

(***************************************************************************)
(* Inputs                                                                  *)
(***************************************************************************)
IdxOf(parent, name) ==
  CHOOSE i \in EntryIdx : AllEntries[i].parent = parent /\ AllEntries[i].name = name

\* the files of the universe the inputs below name
Fb == IdxOf(STORAGE_ROOT, << "b",".","m","p","4" >>)

Fc == IdxOf(STORAGE_ROOT, << "c",".","m","p","4" >>)

FcacheA == IdxOf(join(STORAGE_ROOT, << "c","a","c","h","e" >>), << "a",".","l","o","g" >>)

FdC == IdxOf(join(STORAGE_ROOT, << "d" >>), << "c",".","m","p","4" >>)

FdA == IdxOf(join(STORAGE_ROOT, << "d" >>), << "a",".","l","o","g" >>)

FlogsA == IdxOf(join(STORAGE_ROOT, << "l","o","g","s" >>), << "a",".","l","o","g" >>)

FsiblingA == IdxOf(SiblingRoot, << "a",".","l","o","g" >>)

\* bytes: alone it rounds up to 1 MB, and two of them sum to 1 MB
HalfMB == MB \div 2

\* a root with files of every category, two groups of equal name and size, and
\* files whose sizes round differently alone and summed
BaseDisk ==
  [i \in FileIdx |->
     IF i \in {Fb, Fc, FdC} THEN 50 * MB
     ELSE IF i \in {FcacheA, FlogsA} THEN 10 * MB
     ELSE IF i = FdA THEN Absent
     ELSE HalfMB]

DevBaseDisk ==
  [i \in DevFileIdx |->
     IF DevName[i] = << "a",".","l","o","g" >>
       THEN (IF DevEntries[i].parent = join(DevRoot, << "d","o","w","n","l","o","a","d" >>)
               THEN HalfMB ELSE 10 * MB)
     ELSE IF DevName[i] = << "n",".","t","x","t" >> THEN HalfMB
     ELSE 50 * MB]

\* a ledger of n entries of earlier runs, newest first
OldLedger(n) ==
  [k \in 1..n |-> [id |-> 0 - k, cleanedMB |-> k, cleanedFiles |-> 1,
                   categories |-> << "logs" >>, simulated |-> TRUE]]

Bodies ==
  { BodyUndefined, BodyNotArray, BodyOf(<< >>),
    BodyOf(<< "logs" >>),
    BodyOf(<< "duplicates", "cache", "duplicates" >>),
    BodyOf(<< "constructor" >>),
    BodyOf(<< "thumbnails", "logs" >>) }

\* bounds of the exploration
MaxCleans == 2

MaxExternal == 1

\* a GET arrives beside at most this many cleans in flight
MaxCleansBesideGet == 0

MaxLedgerCleans == 11

\* the server with nothing in flight
ServerAtStart ==
  /\ unreadable = {}
  /\ unstatable = {}
  /\ clock = 0
  /\ extCount = 0
  /\ req = [r \in Reqs |-> IdleReq]
  /\ getReq = IdleGet

\* no server is used: its state is held fixed
NoServer ==
  /\ ServerAtStart
  /\ disk = [i \in FileIdx |-> Absent]
  /\ locked = {}
  /\ allowDelete = FALSE
  /\ storeFile = StoreMissing

\* the component's state at its first render on platform p
AppAtStart(p) ==
  /\ platform = p
  /\ data = NoData
  /\ selected = {}
  /\ loading = TRUE
  /\ cleaning = FALSE
  /\ directoryUri = FALSE
  /\ scanLimitReached = FALSE
  /\ mountTask = (IF p = "web" THEN "Fetching"
                  ELSE IF p = "android" THEN "LoadingHistory" ELSE "Idle")
  /\ scanTask = IdleScan
  /\ cleanTask = IdleTask

\* no device folder is used: its state is held fixed
NoDevice ==
  /\ ddisk = [i \in DevFileIdx |-> Absent]
  /\ devLocked = {}
  /\ kvFull = FALSE
  /\ localHistory = StoreMissing

\* the server alone with API clients, the app on the web with the server, or
\* the app on android with a device folder
Init ==
  /\ probe = NoProbe
  /\ watch = NoWatch
  /\ many = 0
  /\ \/ /\ AppAtStart("none")
        /\ NoDevice
        /\ ServerAtStart
        /\ disk = BaseDisk
        /\ allowDelete \in BOOLEAN
        /\ locked \in (IF allowDelete THEN { {}, {FdC} } ELSE { {} })
        /\ storeFile = StoreOf(OldLedger(HISTORY_CAP - 1))
     \/ /\ AppAtStart("web")
        /\ NoDevice
        /\ ServerAtStart
        /\ disk \in { BaseDisk, [BaseDisk EXCEPT ![FdC] = Absent, ![FlogsA] = HalfMB] }
        /\ allowDelete \in BOOLEAN
        /\ locked = {}
        /\ storeFile = StoreCorrupt
     \/ /\ AppAtStart("android")
        /\ NoServer
        /\ ddisk = DevBaseDisk
        /\ devLocked \in SUBSET { CHOOSE i \in DevFileIdx :
                                    DevEntries[i].parent = join(DevRoot, << "c","a","c","h","e" >>) }
        /\ kvFull = FALSE
        /\ localHistory \in { StoreNoHistory, StoreOf(OldLedger(HISTORY_CAP)) }

Next ==
  \/ \E r \in Reqs, body \in Bodies :
       /\ platform = "none"
       /\ Started < MaxCleans
       /\ getReq.pc = "Idle"
       /\ Receive(r, body)
       /\ UNCHANGED appVars
  \/ \E r \in Reqs : Baseline(r)
  \/ \E r \in Reqs : Unlink(r)
  \/ \E r \in Reqs : Record(r)
  \/ \E r \in Reqs : platform = "none" /\ Return(r) /\ UNCHANGED appVars
  \/ /\ platform = "none"
     /\ CleansInFlight <= MaxCleansBesideGet
     /\ OverviewReceive
     /\ UNCHANGED appVars
  \/ OverviewRespond
  \/ platform = "none" /\ CleansInFlight <= MaxCleansBesideGet /\ HistoryGet
  \/ platform = "none" /\ GetReturn /\ UNCHANGED appVars
  \/ \E i \in { FlogsA } :
       platform # "android" /\ extCount < MaxExternal /\ ExternalRemove(i)
  \/ \E i \in { FdA } :
       platform # "android" /\ extCount < MaxExternal /\ ExternalCreate(i, HalfMB)
  \/ LoadOverviewSend
  \/ LoadOverviewOk
  \/ LoadOverviewFail
  \/ \E id \in { "logs" } : ToggleSwitch(id)
  \/ toggleAll
  \/ Started < MaxCleans /\ RunCleanPress
  \/ \E r \in Reqs : RunCleanSend(r)
  \/ \E r \in Reqs : RunCleanOk(r)
  \/ RunCleanFail
  \/ MountHistory
  \/ requestDirectory
  \/ DeviceScanWalk
  \/ DeviceScanFinish
  \/ Started < MaxCleans /\ RunDeviceCleanPress
  \/ DevBaseline
  \/ DevDelete
  \/ DevRescan
  \/ DevLoadHistory
  \/ DevSave
  \/ \E i \in { j \in DevFileIdx :
                 DevEntries[j].parent = join(DevRoot, << "d","o","w","n","l","o","a","d" >>) } :
       platform = "android" /\ extCount < MaxExternal /\ ExternalDevRemove(i)
  \/ platform = "android" /\ extCount < MaxExternal /\ ExternalKv

Spec == Init /\ [][Next]_vars

(***************************************************************************)
(* Scans of many file sets: the app is started on every root (web) and     *)
(* every granted folder (android) and scans it once                        *)
(***************************************************************************)
InitScan ==
  /\ probe = NoProbe
  /\ watch = NoWatch
  /\ many = 0
  /\ \/ /\ AppAtStart("web")
        /\ NoDevice
        /\ ServerAtStart
        /\ disk \in { [i \in FileIdx |-> IF i \in DOMAIN f THEN f[i] ELSE Absent] :
                         f \in [{ i \in FileIdx : i < FsiblingA } -> {Absent, 10 * MB, 50 * MB}] }
        /\ allowDelete = FALSE
        /\ locked = {}
        /\ storeFile = StoreMissing
     \/ /\ AppAtStart("android")
        /\ NoServer
        /\ ddisk \in [DevFileIdx -> {Absent, 10 * MB}]
        /\ devLocked = {}
        /\ kvFull = FALSE
        /\ localHistory = StoreMissing

NextScan ==
  \/ LoadOverviewSend
  \/ OverviewRespond
  \/ LoadOverviewOk
  \/ MountHistory
  \/ requestDirectory
  \/ DeviceScanWalk
  \/ DeviceScanFinish

SpecScan == InitScan /\ [][NextScan]_vars

(***************************************************************************)
(* Many cleans in a row over a small root and a small folder, from every   *)
(* kind of persisted ledger                                                *)
(***************************************************************************)
LedgerStores ==
  { StoreMissing, StoreCorrupt, StoreNoHistory, StoreOf(<< >>),
    StoreOf(OldLedger(HISTORY_CAP - 1)), StoreOf(OldLedger(HISTORY_CAP + 2)) }

\* the key-value store changes between having and not having room this often
MaxKvChanges == 2

InitLedger ==
  /\ probe = NoProbe
  /\ watch = NoWatch
  /\ many = 0
  /\ \/ /\ AppAtStart("none")
        /\ NoDevice
        /\ ServerAtStart
        /\ disk = [i \in FileIdx |-> IF i = FlogsA THEN 10 * MB ELSE Absent]
        /\ allowDelete \in BOOLEAN
        /\ locked = {}
        /\ storeFile \in LedgerStores
     \/ /\ AppAtStart("android")
        /\ NoServer
        /\ ddisk = [i \in DevFileIdx |->
                      IF DevEntries[i].parent = DevRoot /\ DevName[i] = << "a",".","l","o","g" >>
                        THEN 10 * MB ELSE Absent]
        /\ devLocked = {}
        /\ kvFull = FALSE
        /\ localHistory \in LedgerStores

NextLedger ==
  \/ \E r \in Reqs, body \in { BodyOf(<< "logs" >>) } :
       platform = "none" /\ Started < MaxLedgerCleans /\ Receive(r, body) /\ UNCHANGED appVars
  \/ \E r \in Reqs : Baseline(r)
  \/ \E r \in Reqs : Unlink(r)
  \/ \E r \in Reqs : Record(r)
  \/ \E r \in Reqs : platform = "none" /\ Return(r) /\ UNCHANGED appVars
  \/ MountHistory
  \/ requestDirectory
  \/ DeviceScanWalk
  \/ DeviceScanFinish
  \/ Started < MaxLedgerCleans /\ RunDeviceCleanPress
  \/ DevBaseline
  \/ DevDelete
  \/ DevRescan
  \/ DevLoadHistory
  \/ DevSave
  \/ platform = "android" /\ extCount < MaxKvChanges /\ ExternalKv

SpecLedger == InitLedger /\ [][NextLedger]_vars

(***************************************************************************)
(* The deletion loop (lines 219-229) entered with any list of candidates:  *)
(* files of the root, the sibling's file, and crafted paths; any of the    *)
(* root's candidates may be locked, and a file listed twice is gone at its *)
(* second unlink.  The walk of scanRoot only yields paths joined under the *)
(* root, so the guard withinRoot is exercised here on the inputs of the    *)
(* loop rather than through a scan.                                        *)
(***************************************************************************)
Candidate(id) ==
  [path |-> id,
   size |-> BaseDisk[CHOOSE t \in TargetById[id] : TRUE],
   category |-> "logs"]

MaxCandidates == 3

\* lists of files of the root, the sibling's file and the crafted paths
CandidateLists ==
  LET ids == { Fb, FlogsA, FsiblingA } \cup (PathIds \ EntryIdx)
  IN  UNION { [1..n -> { Candidate(id) : id \in ids }] : n \in 1..MaxCandidates }

\* the request as line 219 finds it
AtLoop(ftc) ==
  [IdleReq EXCEPT !.pc = IF NextCandidate(ftc, 1) > Len(ftc) THEN "Rescanning" ELSE "Deleting",
                  !.body = BodyOf(<< "logs" >>), !.targetIds = << "logs" >>,
                  !.scan = scanRoot(BaseDisk, {}, {}),
                  !.filesToClean = ftc, !.i = NextCandidate(ftc, 1)]

InitBatch ==
  /\ probe = NoProbe
  /\ watch = NoWatch
  /\ many = 0
  /\ AppAtStart("none")
  /\ NoDevice
  /\ unreadable = {}
  /\ unstatable = {}
  /\ clock = 0
  /\ extCount = 0
  /\ getReq = IdleGet
  /\ disk = BaseDisk
  /\ allowDelete = TRUE
  /\ locked \in SUBSET { Fb, FlogsA }
  /\ storeFile = StoreMissing
  /\ \E ftc \in CandidateLists :
       req = [r \in Reqs |-> IF r = 1 THEN AtLoop(ftc) ELSE IdleReq]

NextBatch ==
  \/ \E r \in Reqs : Unlink(r)
  \/ \E r \in Reqs : Record(r)
  \/ \E r \in Reqs : Return(r) /\ UNCHANGED appVars

SpecBatch == InitBatch /\ [][NextBatch]_vars

(***************************************************************************)
(* One file at every location of a small tree, under directories named    *)
(* like the categories in either case, with every extension of the lists   *)
(***************************************************************************)
ProbeDirs ==
  LET names == { << "c","a","c","h","e" >>, << "C","a","c","h","e" >>, << "T","M","P" >>,
                 << "d","o","w","n","l","o","a","d","s" >>,
                 << "d","o","w","n","l","o","a","d" >>, << "d" >>, << "l","o","g","s" >> }
  IN  { << >> } \cup { << a >> : a \in names } \cup { << a, b >> : a \in names, b \in names }

ProbeNames ==
  { << "b",".","m","p","4" >>, << "b",".","m","o","v" >>, << "b",".","m","k","v" >>,
    << "b",".","a","v","i" >>, << "b",".","z","i","p" >>, << "b",".","r","a","r" >>,
    << "b",".","7","z" >>, << "b",".","t","a","r" >>, << "a",".","t","a","r",".","g","z" >>,
    << "b",".","i","s","o" >>, << "B",".","M","p","4" >>,
    << "a",".","l","o","g" >>, << "A",".","L","O","G" >>, << ".","l","o","g" >>,
    << "n",".","t","x","t" >>, << "n" >>, << "c","a","c","h","e" >>,
    << "d","o","w","n","l","o","a","d",".","z","i","p" >> }

InitClassify ==
  /\ AppAtStart("none")
  /\ NoDevice
  /\ NoServer
  /\ many = 0
  /\ watch = NoWatch
  /\ \E dirs \in ProbeDirs, name \in ProbeNames, encoded \in BOOLEAN :
       probe = [NoProbe EXCEPT !.dirs = dirs, !.name = name, !.encoded = encoded]

NextClassify ==
  \/ ClassifyServer
  \/ ClassifyClient

SpecClassify == InitClassify /\ [][NextClassify]_vars

(***************************************************************************)
(* Walks of the root by GET /api/overview: files in and below ignored      *)
(* directories and elsewhere, directories whose listing fails (the root    *)
(* among them) and files whose stat fails                                  *)
(***************************************************************************)
\* the files that lie in or below a directory named node_modules, .git or .expo
Hidden ==
  { f \in FileIdx :
      LET segs == splitSep(PathStr[f], << >>, << >>)
      IN  \E k \in 1..(Len(segs) - 1) :
            segs[k] \in { << "n","o","d","e","_","m","o","d","u","l","e","s" >>,
                          << ".","g","i","t" >>, << ".","e","x","p","o" >> } }

InitWalk ==
  LET varied == { Fb, FlogsA, FdC } \cup Hidden
  IN  /\ probe = NoProbe
      /\ watch = NoWatch
      /\ many = 0
      /\ AppAtStart("none")
      /\ NoDevice
      /\ disk \in { [i \in FileIdx |-> IF i \in varied THEN f[i] ELSE Absent] :
                       f \in [varied -> {Absent, 10 * MB}] }
      /\ unreadable \in SUBSET { STORAGE_ROOT, join(STORAGE_ROOT, << "d" >>),
                                 join(STORAGE_ROOT, << "l","o","g","s" >>) }
      /\ unstatable \in SUBSET { Fb, FdC }
      /\ locked = {}
      /\ allowDelete = FALSE
      /\ storeFile = StoreMissing
      /\ clock = 0
      /\ extCount = 0
      /\ req = [r \in Reqs |-> IdleReq]
      /\ getReq = IdleGet

NextWalk ==
  \/ OverviewReceive /\ UNCHANGED appVars
  \/ OverviewRespond
  \/ GetReturn /\ UNCHANGED appVars

SpecWalk == InitWalk /\ [][NextWalk]_vars

(***************************************************************************)
(* A caller of GET /api/overview and GET /api/history that compares each   *)
(* answer with the one before, beside a clean and changes made by other    *)
(* processes                                                               *)
(***************************************************************************)
MaxGetCleans == 1

MaxGetExternal == 1

InitGet ==
  /\ probe = NoProbe
  /\ watch = [NoWatch EXCEPT !.on = TRUE]
  /\ many = 0
  /\ AppAtStart("none")
  /\ NoDevice
  /\ ServerAtStart
  /\ disk \in { [i \in FileIdx |-> IF i \in DOMAIN f THEN f[i] ELSE Absent] :
                   f \in [{ Fb, FlogsA } -> {Absent, 10 * MB}] }
  /\ locked = {}
  /\ allowDelete \in BOOLEAN
  /\ storeFile \in { StoreMissing, StoreCorrupt, StoreOf(OldLedger(2)) }

NextGet ==
  \/ OverviewReceive /\ UNCHANGED appVars
  \/ OverviewRespond
  \/ HistoryGet
  \/ GetReturn /\ UNCHANGED appVars
  \/ \E r \in Reqs, body \in { BodyOf(<< "logs" >>) } :
       Started < MaxGetCleans /\ Receive(r, body) /\ UNCHANGED appVars
  \/ \E r \in Reqs : Baseline(r)
  \/ \E r \in Reqs : Unlink(r)
  \/ \E r \in Reqs : Record(r)
  \/ \E r \in Reqs : Return(r) /\ UNCHANGED appVars
  \/ extCount < MaxGetExternal /\ ExternalRemove(FlogsA)
  \/ extCount < MaxGetExternal /\ ExternalCreate(FdC, 50 * MB)

SpecGet == InitGet /\ [][NextGet]_vars

(***************************************************************************)
(* A granted folder that holds about as many documents as the scan's cap:  *)
(* it is picked once, scanned and cleaned while another app adds documents *)
(***************************************************************************)
MaxAdds == 1

MaxCapCleans == 1

InitCap ==
  /\ probe = NoProbe
  /\ watch = NoWatch
  /\ many = MAX_SCAN_FILES - 10
  /\ AppAtStart("android")
  /\ NoServer
  /\ ddisk = DevBaseDisk
  /\ devLocked = {}
  /\ kvFull = FALSE
  /\ localHistory = StoreMissing

NextCap ==
  \/ MountHistory
  \/ ~directoryUri /\ requestDirectory
  \/ DeviceScanWalk
  \/ DeviceScanFinish
  \/ Started < MaxCapCleans /\ RunDeviceCleanPress
  \/ DevBaseline
  \/ DevDelete
  \/ DevRescan
  \/ DevLoadHistory
  \/ DevSave
  \/ \E n \in {1, 10} : extCount < MaxAdds /\ ExternalDevAdd(n)

SpecCap == InitCap /\ [][NextCap]_vars

(***************************************************************************)
(* Properties                                                              *)
(***************************************************************************)
\* the ledger each store holds, as the next clean will read it
ServerLedger == loadStore(storeFile).history

DeviceLedger == loadLocalHistory(localHistory)

\* C1: after any clean (POST /api/clean or runDeviceClean), whatever the
\* selection, the mode and the ledger found, the ledger the clean returns and
\* the ledger it writes back hold at most 10 entries.  A ledger whose first
\* entry has a positive id was written by a clean.
C1_LedgerAtMostTen ==
  /\ \A r \in Reqs : req[r].pc = "Done" => Len(req[r].resp.history) <= 10
  /\ (ServerLedger # << >> /\ ServerLedger[1].id > 0) => Len(ServerLedger) <= 10
  /\ cleanTask.pc = "Saving" => Len(cleanTask.nextHistory) <= 10
  /\ (DeviceLedger # << >> /\ DeviceLedger[1].id > 0) => Len(DeviceLedger) <= 10

\* an eleventh clean has answered with a ledger of ten entries
C1_Witness ==
  \E r \in Reqs : /\ req[r].pc = "Done"
                  /\ clock >= 11
                  /\ Len(req[r].resp.history) = 10
                  /\ Len(ServerLedger) = 10

\* C2 (as the specification states it): once a clean has ended, its entry is
\* the first of the persisted ledger, the entries of the cleans before it
\* follow newest-first with none missing, the ledger holds at most 10 entries,
\* and so after 11 cleans the first clean's entry is gone and the 10 later
\* ones remain.
C2_EveryCleanHeadsLedger ==
  LET L == IF platform = "android" THEN DeviceLedger ELSE ServerLedger
  IN  (clock >= 1 /\ cleanTask.pc # "Saving") =>
        /\ Len(L) <= 10
        /\ Len(L) >= (IF clock < 10 THEN clock ELSE 10)
        /\ \A k \in 1..Len(L) : k <= clock => L[k].id = clock - k + 1

\* whether a file entry lies in the root's tree, by the directory that holds it
UnderRoot(t) ==
  LET p == AllEntries[t].parent
  IN  p = STORAGE_ROOT \/ startsWith(p, STORAGE_ROOT \o sep)

RECURSIVE SumOfSizes(_, _)
SumOfSizes(S, sizeOf) ==
  IF S = {} THEN 0
  ELSE LET t == CHOOSE x \in S : TRUE IN sizeOf[t] + SumOfSizes(S \ {t}, sizeOf)

\* C3: in apply mode no file outside the root's tree is ever deleted, whatever
\* candidates the batch holds (the sibling /r2 whose name starts with the
\* root's, paths with ".."), and such candidates are not counted: the counts
\* never exceed the candidates inside the root that the loop has passed.
C3_OutsideRootNeverDeleted ==
  allowDelete =>
    /\ \A t \in FileIdx : ~UnderRoot(t) => disk[t] = BaseDisk[t]
    /\ \A r \in Reqs :
         req[r].pc \in {"Deleting", "Rescanning", "Done"} =>
           LET ftc    == req[r].filesToClean
               passed == IF req[r].pc = "Deleting" THEN req[r].i - 1 ELSE Len(ftc)
               inside == { k \in 1..passed : \A t \in TargetById[ftc[k].path] : UnderRoot(t) }
           IN  /\ req[r].cleanedFiles <= Cardinality(inside)
               /\ req[r].cleanedBytes <= SumOfSizes(inside, [k \in inside |-> ftc[k].size])

\* a batch whose first candidate is the sibling's file has ended: files of the
\* root were deleted and counted, the sibling's file is still there
C3_Witness ==
  \E r \in Reqs : /\ req[r].pc = "Done"
                  /\ allowDelete
                  /\ req[r].filesToClean[1].path = FsiblingA
                  /\ req[r].cleanedFiles >= 1
                  /\ req[r].cleanedFiles < Len(req[r].filesToClean)
                  /\ disk[FsiblingA] # Absent

\* the counts of the simulated cleans in flight past their baseline or answered
SimulatedRuns == { r \in Reqs : req[r].pc \in {"Rescanning", "Done"} /\ req[r].simulated }

C4_Repeatable ==
  (~allowDelete /\ extCount = 0) =>
    LET L == ServerLedger
        made == { k \in 1..Len(L) : L[k].id > 0 }
    IN  /\ \A r1, r2 \in SimulatedRuns :
             req[r1].targetIds = req[r2].targetIds =>
               /\ req[r1].cleanedBytes = req[r2].cleanedBytes
               /\ req[r1].cleanedFiles = req[r2].cleanedFiles
        /\ \A k1, k2 \in made :
             L[k1].categories = L[k2].categories =>
               /\ L[k1].cleanedMB = L[k2].cleanedMB
               /\ L[k1].cleanedFiles = L[k2].cleanedFiles
        /\ \A r \in SimulatedRuns, k \in made :
             L[k].categories = req[r].targetIds =>
               /\ L[k].cleanedMB = RoundDivMB(req[r].cleanedBytes)
               /\ L[k].cleanedFiles = req[r].cleanedFiles

\* C4: with deletion disabled no step of the system changes the files under
\* the root (only another process does), and as long as no other process has
\* changed them every clean with the same selection has the same cleanedBytes
\* and cleanedFiles, in flight, in its answer and in the ledger.
C4_SimulateKeepsFiles ==
  /\ [][(~allowDelete /\ extCount' = extCount) => disk' = disk]_vars
  /\ []C4_Repeatable

\* two simulated cleans of the same selection are in the ledger, each with files
C4_Witness ==
  /\ ~allowDelete
  /\ extCount = 0
  /\ Len(ServerLedger) >= 2
  /\ ServerLedger[1].id = 2
  /\ ServerLedger[2].id = 1
  /\ ServerLedger[1].categories = ServerLedger[2].categories
  /\ ServerLedger[1].cleanedFiles >= 1
  /\ ServerLedger[1].simulated

\* C5: a simulated clean counts exactly the files of the baseline snapshot's
\* lists of the selected categories: cleanedFiles is their number, cleanedBytes
\* the sum of their sizes, the answer has simulated = true and cleanedMB the
\* rounded sum, and for one selected category cleanedMB is that category's
\* sizeMB in the baseline snapshot.
C5_SimulateCountsBaseline ==
  \A r \in SimulatedRuns :
    LET q   == req[r]
        S   == { q.targetIds[k] : k \in 1..Len(q.targetIds) }
        cf  == q.scan.categoryFiles
        cnt(id) == IF id \in S THEN Len(cf[id]) ELSE 0
        sum(id) == IF id \in S THEN SumSizes(cf[id]) ELSE 0
    IN  /\ q.cleanedFiles = cnt("cache") + cnt("downloads") + cnt("duplicates")
                            + cnt("media") + cnt("logs")
        /\ q.cleanedBytes = sum("cache") + sum("downloads") + sum("duplicates")
                            + sum("media") + sum("logs")
        /\ q.pc = "Done" =>
             /\ q.resp.simulated
             /\ q.resp.cleanedFiles = q.cleanedFiles
             /\ q.resp.cleanedMB = RoundDivMB(q.cleanedBytes)
        /\ (Len(q.targetIds) = 1 /\ q.targetIds[1] \in CategoryIdSet) =>
             \E k \in 1..Len(q.scan.categories) :
               /\ q.scan.categories[k].id = q.targetIds[1]
               /\ q.scan.categories[k].sizeMB = RoundDivMB(q.cleanedBytes)

\* a simulated clean of two categories, each with a file, has answered
C5_Witness ==
  \E r \in Reqs : /\ req[r].pc = "Done"
                  /\ req[r].simulated
                  /\ req[r].targetIds = << "duplicates", "cache" >>
                  /\ req[r].scan.categoryFiles["duplicates"] # << >>
                  /\ req[r].scan.categoryFiles["cache"] # << >>
                  /\ req[r].resp.cleanedFiles >= 2

\* the request selects nothing: no body, categories missing or not an array, or []
EmptySelection(body) == body.kind # "array" \/ body.ids = << >>

\* C6: a clean whose selection is empty (categories missing, not an array, or
\* the empty array) never attempts a deletion and never fails, in either mode,
\* and it counts and reports cleanedMB = 0 and cleanedFiles = 0.
C6_EmptySelectionIsNoOp ==
  \A r \in Reqs :
    (req[r].pc # "Idle" /\ EmptySelection(req[r].body)) =>
      /\ req[r].pc \notin {"Deleting", "Error"}
      /\ req[r].filesToClean = << >>
      /\ req[r].cleanedBytes = 0
      /\ req[r].cleanedFiles = 0
      /\ req[r].pc = "Done" =>
           /\ req[r].resp.cleanedMB = 0
           /\ req[r].resp.cleanedFiles = 0
           /\ req[r].resp.simulated = ~allowDelete

\* in apply mode, with files to delete under the root, a clean with no
\* categories field and a clean with the empty array have both answered
C6_Witness ==
  /\ allowDelete
  /\ req[1].pc = "Done"
  /\ req[2].pc = "Done"
  /\ req[1].body.kind # "array"
  /\ req[2].body = BodyOf(<< >>)
  /\ req[1].resp.scan.totalReclaimableMB > 0

\* the five sizeMB values of a categories array add up to the total
FiveSum(total, cats) ==
  /\ Len(cats) = 5
  /\ { cats[k].id : k \in 1..5 } = { "cache", "downloads", "duplicates", "media", "logs" }
  /\ total = cats[1].sizeMB + cats[2].sizeMB + cats[3].sizeMB + cats[4].sizeMB + cats[5].sizeMB

\* C7: in every snapshot totalReclaimableMB is the sum of the five categories'
\* sizeMB: the server's baseline and rescan snapshots and overview answers, the
\* app's summaries of a scanned folder, and the data the app shows after an
\* overview load, the fall back to the sample data, a clean's answer and a
\* clean simulated on the shown data.
C7_ReclaimableIsSumOfFive ==
  /\ \A r \in Reqs :
       /\ req[r].pc \in {"Deleting", "Rescanning", "Done", "Error"} =>
            FiveSum(req[r].scan.totalReclaimableMB, req[r].scan.categories)
       /\ req[r].pc = "Done" =>
            FiveSum(req[r].resp.scan.totalReclaimableMB, req[r].resp.scan.categories)
  /\ (getReq.pc = "Done" /\ getReq.resp.kind = "overview") =>
       FiveSum(getReq.resp.scan.totalReclaimableMB, getReq.resp.scan.categories)
  /\ data.set => FiveSum(data.totalReclaimableMB, data.categories)
  /\ scanTask.pc = "LoadingHistory" =>
       FiveSum(scanTask.summary.totalReclaimableMB, scanTask.summary.list)
  /\ cleanTask.pc \in {"LoadingHistory", "Saving"} =>
       FiveSum(cleanTask.summary.totalReclaimableMB, cleanTask.summary.list)

\* the sample data after a clean of logs alone was simulated on it
C7_Witness ==
  /\ platform = "web"
  /\ data.set
  /\ data.totalUsedMB = 11600
  /\ data.categories[5].sizeMB = 0
  /\ data.categories[1].sizeMB = 1240
  /\ data.totalReclaimableMB = 4250

\* the positions of a sequence, in order
Positions(s) == [i \in 1..Len(s) |-> i]

\* C8: in every scan, of the walked files with the same name and size the first
\* in walk order keeps the category the categorizer gave it and every other
\* one is listed under duplicates, whatever its own category was; a file whose
\* name and size no earlier file has keeps its category.  So each list of the
\* snapshot holds, in walk order, exactly the files this rule puts there (on
\* the server and in the app).
C8_FirstKeepsOthersDuplicates ==
  /\ (getReq.pc = "Done" /\ getReq.resp.kind = "overview") =>
       LET walked == WalkFiles(disk, unreadable, unstatable)
           same(i, j) == /\ NameOf(walked[i]) = NameOf(walked[j])
                         /\ walked[i].size = walked[j].size
           expected(i) == IF \E j \in 1..(i - 1) : same(i, j) THEN "duplicates"
                          ELSE CategoryOfPath[walked[i].path]
           cf == getReq.resp.scan.categoryFiles
       IN  \A id \in CategoryIdSet :
             LET idx == SelectSeq(Positions(walked), LAMBDA i : expected(i) = id)
             IN  /\ Len(cf[id]) = Len(idx)
                 /\ \A k \in 1..Len(idx) : /\ cf[id][k].path = walked[idx[k]].path
                                           /\ cf[id][k].size = walked[idx[k]].size
  /\ scanTask.pc = "LoadingHistory" =>
       LET walked == DeviceScan(ddisk)
           same(i, j) == /\ DevName[walked[i].uri] = DevName[walked[j].uri]
                         /\ walked[i].size = walked[j].size
           expected(i) == IF \E j \in 1..(i - 1) : same(i, j) THEN "duplicates"
                          ELSE DevCategory[walked[i].uri]
           cf == scanTask.summary.categories
       IN  \A id \in CategoryIdSet :
             LET idx == SelectSeq(Positions(walked), LAMBDA i : expected(i) = id)
             IN  /\ Len(cf[id]) = Len(idx)
                 /\ \A k \in 1..Len(idx) : /\ cf[id][k].uri = walked[idx[k]].uri
                                           /\ cf[id][k].size = walked[idx[k]].size

\* a scan has answered for a root with three a.log of one size: the one walked
\* first is under logs, the other two under duplicates, one of them from cache
C8_Witness ==
  /\ getReq.pc = "Done"
  /\ getReq.resp.kind = "overview"
  /\ disk[FlogsA] = 10 * MB
  /\ disk[FdA] = 10 * MB
  /\ disk[FcacheA] = 10 * MB
  /\ \E k \in 1..Len(getReq.resp.scan.categoryFiles["duplicates"]) :
       getReq.resp.scan.categoryFiles["duplicates"][k].path = FcacheA
  /\ \E k \in 1..Len(getReq.resp.scan.categoryFiles["logs"]) :
       getReq.resp.scan.categoryFiles["logs"][k].path = FlogsA

\* the root of the scenario: logs/a.log 10 MB, b.mp4, c.mp4 and d/c.mp4 50 MB
\* each, and nothing else
ScenarioRoot ==
  \A t \in FileIdx :
    disk[t] = (IF t = FlogsA THEN 10 * MB
               ELSE IF t \in {Fb, Fc, FdC} THEN 50 * MB ELSE Absent)

SizeMBOf(cats, id) == (CHOOSE c \in { cats[k] : k \in 1..Len(cats) } : c.id = id).sizeMB

ScenarioScanned ==
  getReq.pc = "Done" /\ getReq.resp.kind = "overview" /\ ScenarioRoot

\* C9 (as the specification states it): the scan of the scenario's root reports
\* logs 10 MB, media 50 MB, duplicates 50 MB, totalUsedMB >= 110 and
\* totalReclaimableMB = 110.
C9_ScenarioAsStated ==
  ScenarioScanned =>
    LET scan == getReq.resp.scan
    IN  /\ SizeMBOf(scan.categories, "logs") = 10
        /\ SizeMBOf(scan.categories, "media") = 50
        /\ SizeMBOf(scan.categories, "duplicates") = 50
        /\ scan.totalUsedMB >= 110
        /\ scan.totalReclaimableMB = 110

\* C9 (amended): b.mp4 and the first c.mp4 are both media, only d/c.mp4 is a
\* duplicate: the scan reports logs 10 MB, media 100 MB, duplicates 50 MB,
\* cache and downloads 0, totalUsedMB = 160 and totalReclaimableMB = 160.
C9_ScenarioAmended ==
  ScenarioScanned =>
    LET scan == getReq.resp.scan
    IN  /\ SizeMBOf(scan.categories, "logs") = 10
        /\ SizeMBOf(scan.categories, "media") = 100
        /\ SizeMBOf(scan.categories, "duplicates") = 50
        /\ SizeMBOf(scan.categories, "cache") = 0
        /\ SizeMBOf(scan.categories, "downloads") = 0
        /\ scan.totalUsedMB = 160
        /\ scan.totalReclaimableMB = 160
        /\ \A k \in 1..Len(scan.categoryFiles["duplicates"]) :
             scan.categoryFiles["duplicates"][k].path = FdC

\* the scenario's root has been scanned and d/c.mp4 is the duplicate
C9_Witness ==
  /\ ScenarioScanned
  /\ Len(getReq.resp.scan.categoryFiles["duplicates"]) = 1
  /\ Len(getReq.resp.scan.categoryFiles["media"]) = 2

\* the files a batch has deleted so far
Removed == { t \in FileIdx : BaseDisk[t] # Absent /\ disk[t] = Absent }

\* C10: in apply mode, whichever candidates cannot be deleted (locked, or gone
\* since an earlier unlink of the same file), the batch goes on: cleanedFiles
\* is the number of files deleted and cleanedBytes the sum of their sizes, once
\* the loop has ended every candidate inside the root that could be deleted is
\* deleted, the request never fails, and its answer has simulated = false, the
\* counts, the snapshot of a rescan made after the batch, and the ledger with
\* the clean's entry first.
C10_PartialFailureGoesOn ==
  \A r \in Reqs :
    LET q == req[r]
    IN  (allowDelete /\ q.pc # "Idle") =>
          /\ q.pc # "Error"
          /\ ~q.simulated
          /\ q.cleanedFiles = Cardinality(Removed)
          /\ q.cleanedBytes = SumOfSizes(Removed, BaseDisk)
          /\ q.pc \in {"Rescanning", "Done"} =>
               \A k \in 1..Len(q.filesToClean) :
                 \A t \in TargetById[q.filesToClean[k].path] :
                   (UnderRoot(t) /\ t \notin locked) => disk[t] = Absent
          /\ q.pc = "Done" =>
               /\ q.resp.kind = "clean"
               /\ ~q.resp.simulated
               /\ q.resp.cleanedFiles = Cardinality(Removed)
               /\ q.resp.cleanedMB = RoundDivMB(SumOfSizes(Removed, BaseDisk))
               /\ q.resp.scan = scanRoot(disk, unreadable, unstatable)
               /\ q.resp.history # << >>
               /\ q.resp.history[1].cleanedFiles = q.cleanedFiles
               /\ ~q.resp.history[1].simulated
               /\ ServerLedger = q.resp.history

\* a batch has answered whose first candidate was locked and is still there,
\* and a later candidate was deleted and counted
C10_Witness ==
  \E r \in Reqs :
    /\ req[r].pc = "Done"
    /\ Len(req[r].filesToClean) >= 2
    /\ req[r].filesToClean[1].path \in locked
    /\ disk[req[r].filesToClean[1].path] # Absent
    /\ req[r].cleanedFiles >= 1
    /\ req[r].resp.cleanedFiles = req[r].cleanedFiles

C12_SameCategory ==
  (probe.server # "unset" /\ probe.client # "unset") => probe.server = probe.client

\* every document of the folder in the order an unlimited walk meets them
RECURSIVE AllDocs(_, _)
AllDocs(dd, i) ==
  IF i \in DevFileIdx THEN (IF dd[i] = Absent THEN << >> ELSE << i >>)
  ELSE IF i # 0 /\ DevEntries[i].uri = ManyDir THEN readDirectoryAsync(i)
  ELSE Flatten([k \in 1..Len(readDirectoryAsync(i)) |-> AllDocs(dd, readDirectoryAsync(i)[k])])

\* the walk a scan is about to make collects the first 1500 documents of the
\* folder in walk order and nothing after them, and a finished scan holds at
\* most 1500 records
CapRespected ==
  /\ (scanTask.pc = "Walking" \/ cleanTask.pc \in {"Scanning", "Rescanning"}) =>
       LET all == AllDocs(ddisk, 0)
           got == DeviceScan(ddisk)
       IN  /\ Len(got) <= 1500
           /\ Len(got) = (IF Len(all) < 1500 THEN Len(all) ELSE 1500)
           /\ \A k \in 1..Len(got) : got[k].uri = all[k]
  /\ scanTask.collected <= 1500
  /\ cleanTask.collected <= 1500

\* C13 (as the specification states it): a client-side scan never collects
\* more than 1500 file records, once the cap is reached the traversal visits
\* no further entry, and the result of a scan that reached the cap is flagged
\* as partial (scanLimitReached is true; the note is set from the same value):
\* the scan of scanDeviceStorage, and the rescan whose result a clean shows.
C13_CappedAndFlagged ==
  /\ CapRespected
  /\ (scanTask.pc = "LoadingHistory" /\ scanTask.collected >= 1500) =>
       scanTask.limitReached /\ scanLimitReached
  /\ (cleanTask.pc \in {"LoadingHistory", "Saving"} /\ cleanTask.collected >= 1500) =>
       scanLimitReached

\* C14: the walk never descends into a directory named node_modules, .git or
\* .expo: no file record of a snapshot lies below such a directory at any
\* depth; such files count toward no category and not toward totalUsedMB (the
\* snapshot is the one of the same root without them, and with no failing
\* listing or stat totalUsedMB is the rounded sum of the other files); and
\* the scan of a root that holds nothing but ignored directories answers with
\* empty lists and zero totals.
C14_IgnoredNeverWalked ==
  (getReq.pc = "Done" /\ getReq.resp.kind = "overview") =>
    LET scan   == getReq.resp.scan
        others == { f \in FileIdx \ Hidden : UnderRoot(f) /\ disk[f] # Absent }
    IN  /\ \A id \in CategoryIdSet :
             \A k \in 1..Len(scan.categoryFiles[id]) :
               scan.categoryFiles[id][k].path \notin Hidden
        /\ scan = scanRoot([f \in FileIdx |-> IF f \in Hidden THEN Absent ELSE disk[f]],
                           unreadable, unstatable)
        /\ (unreadable = {} /\ unstatable = {}) =>
             scan.totalUsedMB = RoundDivMB(SumOfSizes(others, disk))
        /\ others = {} =>
             /\ scan.totalUsedMB = 0
             /\ scan.totalReclaimableMB = 0
             /\ \A id \in CategoryIdSet : scan.categoryFiles[id] = << >>

\* a root that holds only node_modules (with a directory in it) and .git, each
\* with files, has been scanned: nothing was found
C14_Witness ==
  /\ getReq.pc = "Done"
  /\ getReq.resp.kind = "overview"
  /\ unreadable = {}
  /\ \A f \in FileIdx : disk[f] # Absent <=> (f \in Hidden /\ AllEntries[f].parent # join(join(STORAGE_ROOT, << "d" >>), << ".","e","x","p","o" >>))
  /\ Cardinality({ f \in FileIdx : disk[f] # Absent }) = 3
  /\ getReq.resp.scan.totalUsedMB = 0

\* C15: the persisted history record may be missing, unparsable, or valid JSON
\* without a history list: the clean that reads it takes the ledger as empty
\* and ends having written back a well-formed ledger that holds exactly its
\* own entry (POST /api/clean on the server, runDeviceClean on the device).
C15_BadRecordThenOneEntry ==
  [][ LET bad == { StoreMissing, StoreCorrupt, StoreNoHistory }
          ownOnly(file) == /\ file.kind = "json"
                           /\ file.isArray
                           /\ Len(file.history) = 1
                           /\ file.history[1].id = clock'
      IN  /\ \A r \in Reqs :
               (req[r].pc = "Rescanning" /\ req'[r].pc = "Done" /\ storeFile \in bad)
                 => ownOnly(storeFile')
          /\ (cleanTask.pc = "Saving" /\ cleanTask'.pc = "Idle" /\ localHistory \in bad)
               => /\ Len(cleanTask.nextHistory) = 1
                  /\ ownOnly(localHistory') ]_vars

\* the server's part of C15 alone
C15_ServerBadRecordThenOneEntry ==
  [][ \A r \in Reqs :
        (req[r].pc = "Rescanning" /\ req'[r].pc = "Done"
           /\ storeFile \in { StoreMissing, StoreCorrupt, StoreNoHistory })
          => /\ storeFile'.kind = "json" /\ storeFile'.isArray
             /\ Len(storeFile'.history) = 1
             /\ storeFile'.history[1].id = clock' ]_vars

\* the device's part of C15 when the write is accepted
C15_DeviceBadRecordAcceptedWrite ==
  [][ (cleanTask.pc = "Saving" /\ cleanTask'.pc = "Idle" /\ ~kvFull
         /\ localHistory \in { StoreMissing, StoreCorrupt, StoreNoHistory })
        => /\ Len(cleanTask.nextHistory) = 1
           /\ localHistory' = StoreOf(cleanTask.nextHistory) ]_vars

\* C16: GET /api/overview and GET /api/history are read-only and repeatable.
\* No step of either route changes the files under the root (nor what can be
\* listed, read or unlinked) or the persisted ledger; and an answer equals the
\* answer the same route gave to the call before (categories, totals, file
\* lists and history) when, from the moment the earlier call was made, no
\* clean was in flight or recorded and no other process changed a file.
C16_GetReadOnlyRepeatable ==
  /\ [](  ( /\ getReq.pc = "Done"
            /\ watch.prev.kind = getReq.resp.kind
            /\ watch.prevFrom = [clock |-> clock, ext |-> extCount, quiet |-> TRUE]
            /\ CleansInFlight = 0 )
          => /\ getReq.resp.scan = watch.prev.scan
             /\ getReq.resp.history = watch.prev.history )
  /\ [][ getReq' # getReq => /\ disk' = disk
                             /\ unreadable' = unreadable
                             /\ unstatable' = unstatable
                             /\ locked' = locked
                             /\ storeFile' = storeFile ]_vars

\* a second overview of a root that holds files, after a first one with nothing
\* in between, has been answered from a ledger that holds entries
C16_Witness ==
  /\ getReq.pc = "Done"
  /\ getReq.resp.kind = "overview"
  /\ watch.prev.kind = "overview"
  /\ watch.prevFrom = [clock |-> clock, ext |-> extCount, quiet |-> TRUE]
  /\ CleansInFlight = 0
  /\ getReq.resp.scan.totalUsedMB > 0
  /\ getReq.resp.history # << >>

\* C17: every clean goes through its phases in order.  On the server a request
\* moves Idle, ScanningBaseline, Deleting (or, simulating or with nothing to
\* delete, straight on), Rescanning, answered, Idle, and a request whose
\* handler throws after the baseline scan is dropped; runDeviceClean moves
\* Idle, Scanning, Deleting, Rescanning, LoadingHistory, Saving, Idle.  A clean
\* removes a file only while Deleting, with its baseline snapshot taken; the
\* ledger is written only by the step that ends the rescan (server) or after
\* it (device); and the result is given only by the step that writes the
\* ledger, carrying that ledger.
C17_PhasesInOrder ==
  [][ LET serverSteps == { << "Idle", "ScanningBaseline" >>,
                           << "ScanningBaseline", "Deleting" >>,
                           << "ScanningBaseline", "Rescanning" >>,
                           << "ScanningBaseline", "Error" >>,
                           << "Deleting", "Rescanning" >>,
                           << "Rescanning", "Done" >>,
                           << "Done", "Idle" >>, << "Error", "Idle" >> }
          deviceSteps == { << "Idle", "Scanning" >>,
                           << "Scanning", "Deleting" >>,
                           << "Scanning", "Rescanning" >>,
                           << "Deleting", "Rescanning" >>,
                           << "Rescanning", "LoadingHistory" >>,
                           << "LoadingHistory", "Saving" >>,
                           << "Saving", "Idle" >> }
      IN  /\ \A r \in Reqs :
               /\ req'[r].pc # req[r].pc => << req[r].pc, req'[r].pc >> \in serverSteps
               /\ (req[r].pc = "ScanningBaseline" /\ req'[r].pc \in {"Deleting", "Rescanning"})
                    => /\ req'[r].scan # NoScan
                       /\ disk' = disk
               /\ (req[r].pc = "ScanningBaseline" /\ req'[r].pc = "Deleting")
                    => ~req'[r].simulated
               /\ req'[r].resp # req[r].resp /\ req'[r].resp # NoResp
                    => /\ req[r].pc = "Rescanning"
                       /\ req'[r].resp.history = loadStore(storeFile').history
                       /\ storeFile'.kind = "json"
          /\ (disk' # disk /\ extCount' = extCount)
               => \E r \in Reqs : /\ req[r].pc = "Deleting"
                                  /\ req[r].scan # NoScan
                                  /\ req'[r].pc \in {"Deleting", "Rescanning"}
          /\ storeFile' # storeFile
               => \E r \in Reqs : req[r].pc = "Rescanning" /\ req'[r].pc = "Done"
          /\ platform = "android" =>
               /\ cleanTask'.pc # cleanTask.pc
                    => << cleanTask.pc, cleanTask'.pc >> \in deviceSteps
               /\ (ddisk' # ddisk /\ extCount' = extCount) => cleanTask.pc = "Deleting"
               /\ localHistory' # localHistory => cleanTask.pc = "Saving"
               /\ (cleanTask' # cleanTask /\ data' # data)
                    => /\ cleanTask.pc = "Saving"
                       /\ data'.history = cleanTask.nextHistory ]_vars

\* a clean that deleted a file has rescanned, written the ledger and answered
C17_Witness ==
  \E r \in Reqs : /\ req[r].pc = "Done"
                  /\ ~req[r].resp.simulated
                  /\ req[r].resp.cleanedFiles >= 1
                  /\ ServerLedger[1].cleanedFiles = req[r].resp.cleanedFiles

\* C18: no two cleans against the same root are in progress at the same time:
\* while one POST /api/clean is between the start of its baseline scan and the
\* writing of its history entry, no other is.
C18_OneCleanAtATime ==
  \A r, q \in Reqs :
    (/\ req[r].pc \in {"ScanningBaseline", "Deleting", "Rescanning"}
     /\ req[q].pc \in {"ScanningBaseline", "Deleting", "Rescanning"}) => r = q

\* the app alone: its one clean at a time (the button is disabled while cleaning)
C18_AppOneCleanAtATime ==
  platform # "none" =>
    Cardinality({ r \in Reqs : req[r].pc \in {"ScanningBaseline", "Deleting", "Rescanning"} })
      + (IF platform = "android" /\ cleanTask.pc # "Idle" THEN 1 ELSE 0) <= 1

\* C19: the snapshot a clean returns is the root as the rescan finds it once
\* the batch is over, not the baseline with the deleted sizes taken off.  In
\* the step that ends the rescan, every record of the returned categoryFiles
\* is a file that exists then, with its size of then (so nothing this clean
\* deleted, and nothing another process removed during the batch, is in it),
\* totalUsedMB is the rounded sum of the files that exist then (so what another
\* process created during the batch is counted), and the whole snapshot is the
\* scan of the root as it is then; on the device the summary kept for the
\* result lists only documents that exist at the rescan, and the result shown
\* carries that summary's totals and categories.
C19_SnapshotFromRescan ==
  [][ /\ \A r \in Reqs :
           (req[r].pc = "Rescanning" /\ req'[r].pc = "Done") =>
             LET scan    == req'[r].resp.scan
                 present == { f \in FileIdx \ Hidden : UnderRoot(f) /\ disk[f] # Absent }
             IN  /\ \A id \in CategoryIdSet :
                      \A k \in 1..Len(scan.categoryFiles[id]) :
                        LET rec == scan.categoryFiles[id][k]
                        IN  rec.path \in present /\ rec.size = disk[rec.path]
                 /\ scan.totalUsedMB = RoundDivMB(SumOfSizes(present, disk))
                 /\ scan = scanRoot(disk, unreadable, unstatable)
      /\ (cleanTask.pc = "Rescanning" /\ cleanTask'.pc = "LoadingHistory") =>
           /\ \A id \in CategoryIdSet :
                \A k \in 1..Len(cleanTask'.summary.categories[id]) :
                  LET rec == cleanTask'.summary.categories[id][k]
                  IN  ddisk[rec.uri] # Absent /\ rec.size = ddisk[rec.uri]
           /\ cleanTask'.summary = buildCategories(DeviceScan(ddisk))
      /\ (cleanTask.pc = "Saving" /\ cleanTask'.pc = "Idle") =>
           /\ data'.totalUsedMB = cleanTask.summary.totalUsedMB
           /\ data'.totalReclaimableMB = cleanTask.summary.totalReclaimableMB
           /\ data'.categories = cleanTask.summary.list ]_vars

\* a clean that deleted a file has answered, after another process changed the
\* root since its baseline scan, with a snapshot that differs from its baseline
\* and is the root as it is
C19_Witness ==
  \E r \in Reqs : /\ req[r].pc = "Done"
                  /\ ~req[r].resp.simulated
                  /\ req[r].resp.cleanedFiles >= 1
                  /\ extCount > req[r].epoch
                  /\ req[r].resp.scan # req[r].scan
                  /\ req[r].resp.scan = scanRoot(disk, unreadable, unstatable)
                  /\ \E id \in CategoryIdSet :
                       \E k \in 1..Len(req[r].resp.scan.categoryFiles[id]) :
                         req[r].resp.scan.categoryFiles[id][k].path = FdA
                  /\ \A id \in CategoryIdSet :
                       \A k \in 1..Len(req[r].scan.categoryFiles[id]) :
                         req[r].scan.categoryFiles[id][k].path # FdA

\* the files a walk has to emit: those that exist under the root, whose stat
\* succeeds, and that are reached through directories that are listed without
\* failure and are not ignored
Reachable ==
  { f \in FileIdx \ Hidden :
      /\ UnderRoot(f)
      /\ disk[f] # Absent
      /\ f \notin unstatable
      /\ \A dir \in unreadable :
           ~(AllEntries[f].parent = dir \/ startsWith(AllEntries[f].parent, dir \o sep)) }

\* C20: whatever directories fail to be listed (the root among them) and
\* whatever files fail to be stat'ed, the walk ends and the overview is
\* answered, never an error; nothing in or below a directory whose listing
\* fails is emitted, no file whose stat fails is emitted, and every other file
\* reached through listed, non-ignored directories is emitted exactly once:
\* it counts toward totalUsedMB, and it is in at most one category list, in
\* exactly one when its path has a category.
C20_WalkToleratesFailures ==
  getReq.pc = "Done" =>
    /\ getReq.resp.kind = "overview"
    /\ LET walked == WalkFiles(disk, unreadable, unstatable)
           scan   == getReq.resp.scan
           listed(f) == { << id, k >> \in CategoryIdSet \X (1..Cardinality(FileIdx)) :
                            /\ k <= Len(scan.categoryFiles[id])
                            /\ scan.categoryFiles[id][k].path = f }
       IN  /\ \A k \in 1..Len(walked) : walked[k].path \in Reachable
           /\ \A f \in Reachable :
                Cardinality({ k \in 1..Len(walked) : walked[k].path = f }) = 1
           /\ scan.totalUsedMB = RoundDivMB(SumOfSizes(Reachable, disk))
           /\ \A f \in FileIdx :
                /\ listed(f) # {} => f \in Reachable
                /\ Cardinality(listed(f)) <= 1
                /\ (f \in Reachable /\ CategoryOfPath[f] # NoCategory)
                     => Cardinality(listed(f)) = 1

\* an overview has been answered for a root with a directory that cannot be
\* listed and holds a file, a file that cannot be stat'ed, and a file that is
\* reached
C20_Witness ==
  /\ getReq.pc = "Done"
  /\ getReq.resp.kind = "overview"
  /\ \E dir \in unreadable : \E f \in FileIdx : disk[f] # Absent /\ AllEntries[f].parent = dir
  /\ \E f \in unstatable : disk[f] # Absent /\ AllEntries[f].parent \notin unreadable
  /\ Reachable # {}
  /\ getReq.resp.scan.totalUsedMB > 0

\* the ids of a selection, as a set
IdsOf(targetIds) == { targetIds[k] : k \in 1..Len(targetIds) }

\* the files a snapshot lists under the category id
ListedUnder(scan, id) ==
  { scan.categoryFiles[id][k].path : k \in 1..Len(scan.categoryFiles[id]) }

\* C21: a file whose final category (in the baseline snapshot of the clean) is
\* none, or is a category that is not selected, is never deleted by that clean,
\* whatever the selection and the mode: a clean removes only files its
\* baseline snapshot lists under a selected id.  In every snapshot a clean
\* returns, each list holds only records of its own category, each category's
\* sizeMB is the rounded sum of its own list, totalReclaimableMB is the sum of
\* the five sizeMB, and totalUsedMB is the rounded sum of all files of the
\* root: a file in no list counts toward totalUsedMB alone.
C21_UnselectedNeverDeleted ==
  [][ /\ \A f \in FileIdx :
           (disk[f] # Absent /\ disk'[f] = Absent /\ extCount' = extCount)
             => \E r \in Reqs :
                  /\ req[r].pc = "Deleting"
                  /\ ~req[r].simulated
                  /\ \E id \in IdsOf(req[r].targetIds) \cap CategoryIdSet :
                       f \in ListedUnder(req[r].scan, id)
      /\ \A r \in Reqs :
           (req[r].pc = "Rescanning" /\ req'[r].pc = "Done") =>
             LET scan    == req'[r].resp.scan
                 present == { f \in FileIdx \ Hidden : UnderRoot(f) /\ disk[f] # Absent }
                 listed  == UNION { ListedUnder(scan, id) : id \in CategoryIdSet }
             IN  /\ \A id \in CategoryIdSet :
                      \A k \in 1..Len(scan.categoryFiles[id]) :
                        scan.categoryFiles[id][k].category = id
                 /\ \A k \in 1..Len(scan.categories) :
                      scan.categories[k].sizeMB =
                        RoundDivMB(SumOfSizes(ListedUnder(scan, scan.categories[k].id), disk))
                 /\ scan.totalReclaimableMB =
                      SumOfSizes(1..Len(scan.categories),
                                 [k \in 1..Len(scan.categories) |-> scan.categories[k].sizeMB])
                 /\ scan.totalUsedMB = RoundDivMB(SumOfSizes(present, disk))
                 /\ listed \subseteq present ]_vars

\* a clean with deletion on that selected logs has answered: it removed the
\* log, and the file without a category and the unselected media file are
\* still there, the first in no list of the answer
C21_Witness ==
  \E r \in Reqs :
    /\ req[r].pc = "Done"
    /\ ~req[r].resp.simulated
    /\ req[r].targetIds = << "logs" >>
    /\ req[r].resp.cleanedFiles >= 1
    /\ disk[FlogsA] = Absent
    /\ disk[Fb] # Absent
    /\ \E f \in FileIdx :
         /\ UnderRoot(f) /\ f \notin Hidden /\ disk[f] # Absent
         /\ CategoryOfPath[f] = NoCategory
         /\ \A id \in CategoryIdSet : f \notin ListedUnder(req[r].resp.scan, id)
         /\ \A id \in CategoryIdSet : f \notin ListedUnder(req[r].scan, id)

\* the candidates the selected ids that the snapshot holds give, in the
\* selection's order
PresentCandidates(scan, targetIds) ==
  Flatten([k \in 1..Len(targetIds) |->
             IF targetIds[k] \in DOMAIN scan.categoryFiles
               THEN scan.categoryFiles[targetIds[k]] ELSE << >>])

\* a request has an id the snapshot does not hold
HasAbsentId(r) == \E k \in 1..Len(req[r].targetIds) : req[r].targetIds[k] \notin CategoryIdSet

\* C22 (as the specification states it): a selected category id that is
\* absent from the snapshot contributes no candidate and never causes an error:
\* no clean with such an id fails, its candidates are those of the selected ids
\* that are present, it counts no more than those, and once it has answered its
\* history entry carries the selection as given.
C22_AbsentIdNeverAnError ==
  \A r \in Reqs :
    HasAbsentId(r) =>
      /\ req[r].pc # "Error"
      /\ req[r].pc \in {"Deleting", "Rescanning", "Done"} =>
           /\ req[r].filesToClean = PresentCandidates(req[r].scan, req[r].targetIds)
           /\ req[r].cleanedFiles <= Len(req[r].filesToClean)
      /\ req[r].pc = "Done" =>
           \E k \in 1..Len(ServerLedger) :
             /\ ServerLedger[k].categories = req[r].targetIds
             /\ ServerLedger[k].cleanedFiles = req[r].cleanedFiles

\* the same for the absent ids that are not names every object inherits: those
\* cleans never fail
C22_PlainAbsentIdIgnored ==
  \A r \in Reqs :
    (HasAbsentId(r) /\ ~Throws(req[r].targetIds)) =>
      /\ req[r].pc # "Error"
      /\ req[r].pc \in {"Deleting", "Rescanning", "Done"} =>
           /\ req[r].filesToClean = PresentCandidates(req[r].scan, req[r].targetIds)
           /\ req[r].cleanedFiles <= Len(req[r].filesToClean)
      /\ req[r].pc = "Done" =>
           \E k \in 1..Len(ServerLedger) :
             /\ ServerLedger[k].categories = req[r].targetIds
             /\ ServerLedger[k].cleanedFiles = req[r].cleanedFiles

\* a clean of an absent id and logs has answered after removing the log
C22_PlainAbsentIdAnswered ==
  \E r \in Reqs :
    /\ HasAbsentId(r) /\ req[r].pc = "Done" /\ ~req[r].resp.simulated
    /\ req[r].resp.cleanedFiles = 1
    /\ disk[FlogsA] = Absent

\* no two positions of a list of records hold the same file
NoRepeat(files, key(_)) ==
  \A j, k \in 1..Len(files) : key(files[j]) = key(files[k]) => j = k

\* the five lists share no file and none holds a file twice
ListsDisjoint(lists, key(_)) ==
  /\ \A id \in CategoryIdSet : NoRepeat(lists[id], key)
  /\ \A a, b \in CategoryIdSet :
       a # b => \A j \in 1..Len(lists[a]), k \in 1..Len(lists[b]) :
                  key(lists[a][j]) # key(lists[b][k])

\* C23: in every snapshot (the baseline of a clean and the one it returns, on
\* the server and in the app's own scan) the five category lists are pairwise
\* disjoint and hold each file at most once, so the candidates of a clean that
\* selects several categories, or one category several times, hold no file
\* twice, no file is counted twice (cleanedFiles never exceeds the number of
\* candidates), and the candidates are never more than the files the baseline
\* walk found.
C23_NoFileTwice ==
  /\ [](/\ \A r \in Reqs :
             /\ ListsDisjoint(req[r].scan.categoryFiles, LAMBDA f : f.path)
             /\ NoRepeat(req[r].filesToClean, LAMBDA f : f.path)
             /\ req[r].cleanedFiles <= Len(req[r].filesToClean)
             /\ req[r].pc = "Done" =>
                  ListsDisjoint(req[r].resp.scan.categoryFiles, LAMBDA f : f.path)
        /\ ListsDisjoint(cleanTask.summary.categories, LAMBDA f : f.uri)
        /\ ListsDisjoint(scanTask.summary.categories, LAMBDA f : f.uri)
        /\ NoRepeat(cleanTask.targetFiles, LAMBDA f : f.uri)
        /\ cleanTask.cleanedFiles <= Len(cleanTask.targetFiles))
  /\ [][ /\ \A r \in Reqs :
              (req[r].pc = "ScanningBaseline" /\ req'[r].pc # "ScanningBaseline") =>
                 Len(req'[r].filesToClean) <= Len(WalkFiles(disk, unreadable, unstatable))
         /\ (cleanTask.pc = "Scanning" /\ cleanTask'.pc # "Scanning") =>
              Len(cleanTask'.targetFiles) <= Len(DeviceScan(ddisk)) ]_vars

\* a clean with deletion on whose selection names duplicates twice and cache
\* has removed a file of each of the two lists and counted each once
C23_Witness ==
  \E r \in Reqs :
    /\ req[r].pc = "Done" /\ ~req[r].resp.simulated
    /\ req[r].body = BodyOf(<< "duplicates", "cache", "duplicates" >>)
    /\ req[r].targetIds = << "duplicates", "cache" >>
    /\ Len(req[r].scan.categoryFiles["duplicates"]) >= 1
    /\ Len(req[r].scan.categoryFiles["cache"]) >= 1
    /\ req[r].cleanedFiles = Len(req[r].filesToClean)
    /\ req[r].cleanedFiles >= 2

\* C24: on the server, however the clean requests interleave at their awaits,
\* no history entry is lost: the step that records a clean reads the ledger,
\* puts the entry first and writes the ledger cut to 10 with nothing in
\* between, so the persisted ledger always holds the entries of the last
\* min(n, 10) of the n cleans completed so far, newest first, and the entry of
\* a clean leaves the ledger only when 10 newer ones are in it.
C24_NoEntryLost ==
  /\ [](platform = "none" =>
          /\ Len(ServerLedger) >= (IF clock < HISTORY_CAP THEN clock ELSE HISTORY_CAP)
          /\ \A k \in 1..Len(ServerLedger) :
               (k <= clock /\ k <= HISTORY_CAP) => ServerLedger[k].id = clock - k + 1)
  /\ [][ \A r \in Reqs :
           (req[r].pc = "Rescanning" /\ req'[r].pc = "Done") =>
             /\ ServerLedger' # << >>
             /\ ServerLedger'[1].id = clock'
             /\ ServerLedger'[1].cleanedFiles = req[r].cleanedFiles
             /\ ServerLedger'[1].categories = req[r].targetIds
             /\ Tail(ServerLedger') = sliceTo(ServerLedger, HISTORY_CAP - 1)
             /\ req'[r].resp.history = ServerLedger' ]_vars

\* two cleans that ran interleaved have both answered, the second of them the
\* eleventh clean: the ledger holds the ten newest entries, theirs first
C24_Witness ==
  /\ platform = "none"
  /\ \A r \in Reqs : req[r].pc = "Done"
  /\ clock = HISTORY_CAP + 1
  /\ Len(ServerLedger) = HISTORY_CAP
  /\ ServerLedger[1].id = clock /\ ServerLedger[2].id = clock - 1
  /\ ServerLedger[HISTORY_CAP].id = 2

\* cleanedFiles of the applied cleans so far: those recorded in the ledger and
\* those still between their baseline and their record
CountedByCleans ==
  SumOfSizes({ k \in 1..Len(ServerLedger) :
                 ServerLedger[k].id > 0 /\ ~ServerLedger[k].simulated },
             [k \in 1..Len(ServerLedger) |-> ServerLedger[k].cleanedFiles])
  + SumOfSizes({ r \in Reqs : req[r].pc \in {"Deleting", "Rescanning"} },
               [r \in Reqs |-> req[r].cleanedFiles])

\* C25: on the server with deletion on, when clean requests with overlapping
\* selections interleave, each file is counted by at most one of them: a step
\* counts a file exactly when that step removes it, a pending unlink of a file
\* that is already gone fails and is skipped without a count, and so, while no
\* other process has changed the root, the sum of cleanedFiles over the applied
\* cleans equals the number of files removed.
C25_CountedOncePerRemoval ==
  /\ []((platform = "none" /\ allowDelete /\ extCount = 0) =>
          CountedByCleans = Cardinality(Removed))
  /\ [][ (allowDelete /\ extCount' = extCount) =>
           \A r \in Reqs :
             (req[r].pc = "Deleting" /\ req'[r] # req[r]) =>
               LET f == req[r].filesToClean[req[r].i].path
               IN  /\ req'[r].cleanedFiles \in {req[r].cleanedFiles, req[r].cleanedFiles + 1}
                   /\ req'[r].cleanedFiles = req[r].cleanedFiles + 1
                        <=> (disk[f] # Absent /\ disk'[f] = Absent)
                   /\ \A g \in FileIdx \ {f} : disk'[g] = disk[g]
                   /\ disk[f] = Absent =>
                        /\ req'[r].cleanedFiles = req[r].cleanedFiles
                        /\ req'[r].i > req[r].i
                        /\ disk' = disk ]_vars

\* two interleaved cleans with deletion on both listed the log of /r/logs; both
\* have answered, one counted it and the other counted nothing
C25_Witness ==
  /\ platform = "none" /\ allowDelete /\ extCount = 0
  /\ \A r \in Reqs :
       /\ req[r].pc = "Done"
       /\ \E k \in 1..Len(req[r].filesToClean) : req[r].filesToClean[k].path = FlogsA
       /\ Len(req[r].filesToClean) = 1
  /\ req[1].cleanedFiles + req[2].cleanedFiles = 1
  /\ disk[FlogsA] = Absent

(***************************************************************************)
(* Cleans of the duplicates alone, deletion on, nothing locked and no      *)
(* other process at work, over every content of seven files of three names *)
(***************************************************************************)
FdownloadsB ==
  IdxOf(join(STORAGE_ROOT, << "d","o","w","n","l","o","a","d","s" >>), << "b",".","m","p","4" >>)

MaxDupCleans == 1

InitDup ==
  LET varied == { Fb, Fc, FcacheA, FdC, FdA, FdownloadsB, FlogsA }
  IN  /\ probe = NoProbe
      /\ watch = NoWatch
      /\ many = 0
      /\ AppAtStart("none")
      /\ NoDevice
      /\ ServerAtStart
      /\ disk \in { [i \in FileIdx |-> IF i \in varied THEN f[i] ELSE Absent] :
                       f \in [varied -> {Absent, 10 * MB, 50 * MB}] }
      /\ locked = {}
      /\ allowDelete = TRUE
      /\ storeFile = StoreMissing

NextDup ==
  \/ Started < MaxDupCleans /\ Receive(1, BodyOf(<< "duplicates" >>)) /\ UNCHANGED appVars
  \/ Baseline(1)
  \/ Unlink(1)
  \/ Record(1)
  \/ Return(1) /\ UNCHANGED appVars

SpecDup == InitDup /\ [][NextDup]_vars

\* the files of the root that exist, and those of them with the name and size of f
Present == { f \in FileIdx \ Hidden : UnderRoot(f) /\ disk[f] # Absent }

Copies(f) == { g \in Present : AllEntries[g].name = AllEntries[f].name /\ disk[g] = disk[f] }

\* C26: a clean with deletion on that selects only duplicates, every deletion
\* succeeding and no other process changing the root, never removes the last
\* copy of a file: its candidates are the walked files that have an earlier
\* walked file of the same name and size, each step of its loop removes its
\* current candidate and nothing else, and when it answers every group of
\* files of one (name, size) that existed still has exactly one member, which
\* is the first the baseline walk met; the snapshot it returns has an empty
\* duplicates list and duplicates sizeMB = 0.
C26_LastCopyKept ==
  [][ /\ (req[1].pc = "ScanningBaseline" /\ req'[1].pc # "ScanningBaseline") =>
           LET walked == WalkFiles(disk, unreadable, unstatable)
               later  == { i \in 1..Len(walked) :
                             \E j \in 1..(i - 1) :
                               /\ NameOf(walked[j]) = NameOf(walked[i])
                               /\ walked[j].size = walked[i].size }
           IN  /\ { walked[i].path : i \in 1..Len(walked) } = Present
               /\ { req'[1].filesToClean[k].path : k \in 1..Len(req'[1].filesToClean) }
                    = { walked[i].path : i \in later }
               /\ Len(req'[1].filesToClean) = Cardinality(later)
               /\ \A f \in Present :
                    Cardinality(Copies(f) \ { walked[i].path : i \in later }) = 1
      /\ req[1].pc = "Deleting" =>
           LET f == req[1].filesToClean[req[1].i].path
           IN  /\ disk[f] # Absent /\ disk'[f] = Absent
               /\ \A g \in FileIdx \ {f} : disk'[g] = disk[g]
               /\ req'[1].cleanedFiles = req[1].cleanedFiles + 1
      /\ (req[1].pc = "Rescanning" /\ req'[1].pc = "Done") =>
           LET scan == req'[1].resp.scan
           IN  /\ ~req'[1].resp.simulated
               /\ req'[1].resp.cleanedFiles = Len(req[1].filesToClean)
               /\ \A k \in 1..Len(req[1].filesToClean) :
                    LET g == req[1].filesToClean[k]
                    IN  /\ disk[g.path] = Absent
                        /\ Cardinality({ f \in Present : AllEntries[f].name = NameOf(g)
                                                         /\ disk[f] = g.size }) = 1
               /\ \A f \in Present : Copies(f) = {f}
               /\ scan.categoryFiles["duplicates"] = << >>
               /\ \A k \in 1..Len(scan.categories) :
                    scan.categories[k].id = "duplicates" => scan.categories[k].sizeMB = 0 ]_vars

\* the clean has answered after removing three files: two of three equal
\* a.log and one of two equal c.mp4; one of each is left
C26_Witness ==
  /\ req[1].pc = "Done"
  /\ req[1].resp.cleanedFiles = 3
  /\ Cardinality({ f \in {FcacheA, FdA, FlogsA} : disk[f] # Absent }) = 1
  /\ Cardinality({ f \in {Fc, FdC} : disk[f] # Absent }) = 1
  /\ disk[Fb] = 50 * MB /\ disk[FdownloadsB] = 10 * MB
  /\ req[1].resp.scan.categoryFiles["duplicates"] = << >>

====
